---------------------------- MODULE Spec2Model ----------------------------
(***************************************************************************)
(* Model of the XML salvage / inference core of fpc_utilisasi.py.          *)
(*                                                                         *)
(* Text is modelled as a sequence of tokens: every tag the code searches   *)
(* for with str.find / str.count / re is one token, and every run of other *)
(* characters is one token.  Tags never overlap, so find, rfind, count and *)
(* slicing on the characters agree with the same operations on the tokens. *)
(***************************************************************************)
EXTENDS Integers, Sequences, FiniteSets, TLC

VARIABLES
    pc,                   \* position of the program: "main", "ready", or the last call made
    folder_daily_global,  \* module global, None until main() sets it
    debug_folder_global,  \* module global, None until main() sets it
    xml_fragment,         \* argument of _repair_chassis_module_xml
    repaired_xml,         \* its result
    repaired_again,       \* the result of the call on its own result
    raw_capture,          \* what the device sent: the rpc-reply blocks and the text around them
    buff,                 \* argument of _extract_xml_fragment
    extracted,            \* its result
    re_extracted,         \* the result of the call on its own result
    intact_xml,           \* a properly nested document, before one closing tag was lost
    xml_content,          \* argument of _repair_xml_tag_mismatches
    repaired_content,     \* its result
    sent_docs,            \* the rpc-reply documents the device sent, one after the other
    fragment,             \* argument of _parse_fragments_to_dom
    tag_hint,             \* argument of _parse_fragments_to_dom
    parsed,               \* its outcome: a document, None, or an exception raised to the caller
    chassis_items,        \* the fpc and chassis-module elements the device reported
    chassis_fragment,     \* argument of _build_chassis_maps
    chassis_maps,         \* its outcome: the module map, or an exception raised to the caller
    hardware_list,        \* argument of validate_hardware_data
    node_name,            \* argument of validate_hardware_data
    cleaned_list,         \* its result
    revalidated_list,     \* the result of the call on its own result
    iface_name,           \* argument of _smart_sfp_inference: the interface
    iface_status,         \* argument of _smart_sfp_inference: USED, UNUSED or something else
    descriptions,         \* argument of _smart_sfp_inference: the interface descriptions map
    neighbors,            \* argument of _smart_sfp_inference: the LLDP neighbours map
    iface_node,           \* argument of _smart_sfp_inference: the node name
    interfaces_data,      \* argument of _smart_sfp_inference: whether all_interfaces_data is given
    smart_inference,      \* its outcome: a result, None, or an exception raised to the caller
    sfp_report,           \* the SFP status capture_data puts in the row of the interface
    hardware_fragment,    \* argument of _build_hardware_map
    hardware_node,        \* its node_name
    hardware_map,         \* the list it returns
    capture_node,         \* argument of capture_data: the node name
    attempt,              \* capture_data: the index of the connection attempt
    timeouts_tried,       \* capture_data: the timeouts given to connect_to_tacacs so far
    ssh_client,           \* capture_data: None, "open", or "closed" once close() was called
    channel,              \* capture_data: None, "open", or "closed" once close() was called
    commands_sent,        \* capture_data: what was sent on the channel
    alarm_list,           \* capture_data: the alarms _build_alarm_map returned
    parsed_hardware,      \* capture_data: hardware_list, the components _build_hardware_map returned
    iface_doc,            \* capture_data: doc, None or the physical interfaces of the parsed reply
    phy_index,            \* capture_data: position of the loop over the physical interfaces
    debug_fpc_lookup,     \* capture_data: the local of that name: "unbound", "False" or "True"
    node_rows,            \* capture_data: rows of the main sheet
    node_util,            \* capture_data: rows of the utilisation sheet
    capture_outcome,      \* capture_data: running, the dict returned, or the exception raised
    main_nodes,           \* main: nodes, the lines of the node list file
    futures,              \* main: the futures of the pool, one for each entry of the node list
    handled,              \* main: the futures as_completed has yielded
    last_handled,         \* main: fut, the future the loop body ran for last (0: none yet)
    executing,            \* the capture_data calls in progress: thread (0 is the main thread) and node
    results,              \* main: rows of the main sheet by node
    util_results,         \* main: rows of the utilisation sheet by node
    alarm_results,        \* main: rows of the alarm sheet by node
    hardware_results,     \* main: rows of the hardware sheet by node
    failed_nodes,         \* main: the nodes to retry
    retry_index,          \* main: position of the retry loop in failed_nodes
    retry_data,           \* main: what the last retry returned or raised
    retried,              \* the nodes capture_data was called on in the retry loop, in order
    xcvr_map,             \* _build_chassis_maps: the dict xcvr_map, as the list of its items in insertion order
    recorded,             \* the transceivers add_xcvr_map was called for, in order
    lookup_args,          \* arguments of _lookup_xcvr_label: fpc, pic and port
    lookup_label          \* the label _lookup_xcvr_label returned

repairVars  == <<xml_fragment, repaired_xml, repaired_again>>
extractVars == <<raw_capture, buff, extracted, re_extracted>>
mismatchVars == <<intact_xml, xml_content, repaired_content>>
globalVars  == <<folder_daily_global, debug_folder_global>>

parseVars   == <<sent_docs, fragment, tag_hint, parsed>>
mapsVars    == <<chassis_items, chassis_fragment, chassis_maps>>
validateVars == <<hardware_list, node_name, cleaned_list, revalidated_list>>
sfpVars == <<iface_name, iface_status, descriptions, neighbors, iface_node, interfaces_data, smart_inference, sfp_report>>
hardwareVars == <<hardware_fragment, hardware_node, hardware_map>>
captureVars == <<capture_node, attempt, timeouts_tried, ssh_client, channel, commands_sent, alarm_list, parsed_hardware, iface_doc, phy_index, debug_fpc_lookup, node_rows, node_util, capture_outcome>>
poolVars == <<main_nodes, futures, handled, last_handled, executing, results, util_results, alarm_results, hardware_results, failed_nodes, retry_index, retry_data, retried>>
xcvrVars == <<xcvr_map, recorded, lookup_args, lookup_label>>

vars == <<pc, globalVars, repairVars, extractVars, mismatchVars, parseVars, mapsVars,
          validateVars, sfpVars, hardwareVars, captureVars, poolVars, xcvrVars>>

None == "None"

(***************************************************************************)
(* Bounds of the model.                                                    *)
(***************************************************************************)
MaxFragLen == 4
MaxBlocks  == 2
MaxGapTokens == 2
MaxLeaves  == 2
MaxItems   == 2
MaxModules == 2
MaxElements == 2
MaxComponents == 1
MaxNeighbors == 1
MaxLogTokens == 4
MaxSubModules == 2
MaxInterfaces == 2
MaxNodes == 2
MaxXcvrs == 2
MaxSalvageLen == 5

(***************************************************************************)
(* Tokens.                                                                 *)
(***************************************************************************)
\* <n ...>, </n>, <n/>, a run of characters without tags, <?xml ...?>, and
\* an ANSI escape sequence or control character
Open(n)    == [k |-> "open",  n |-> n, d |-> <<>>]
Close(n)   == [k |-> "close", n |-> n, d |-> <<>>]
Empty(n)   == [k |-> "empty", n |-> n, d |-> <<>>]
Text(n, d) == [k |-> "text",  n |-> n, d |-> d]

OPEN_CM    == Open("chassis-module")
CLOSE_CM   == Close("chassis-module")
CLOSE_RPC  == Close("rpc-reply")
TEXT       == Text("text", <<>>)
NL         == Text("\n", <<>>)
\* a run of n spaces
Indent(n)  == Text(CASE n = 4  -> "    "
                     [] n = 8  -> "        "
                     [] n = 12 -> "            "
                     [] n = 16 -> "                "
                     [] n = 20 -> "                    ", <<>>)
RPC_OPEN   == Open("rpc-reply")
ANSI       == [k |-> "ctl", n |-> "ESC[0m", d |-> <<>>]

(***************************************************************************)
(* str helpers, 1-based; 0 plays the part of Python's -1.                  *)
(***************************************************************************)
Count(s, t) == Cardinality({i \in 1..Len(s) : s[i] = t})

\* s.rfind(t, 0, hi): the last occurrence that lies wholly before index hi
RFindBefore(s, t, hi) ==
    LET hits == {i \in 1..Len(s) : i < hi /\ s[i] = t}
    IN  IF hits = {} THEN 0 ELSE CHOOSE i \in hits : \A j \in hits : j <= i


\* s[:pos] + ins + s[pos:], pos being the index of the first token after ins
InsertAt(s, pos, ins) == SubSeq(s, 1, pos - 1) \o ins \o SubSeq(s, pos, Len(s))

\* s.find(t, from): the first occurrence at or after index from
Find(s, t, from) ==
    LET hits == {i \in 1..Len(s) : i >= from /\ s[i] = t}
    IN  IF hits = {} THEN 0 ELSE CHOOSE i \in hits : \A j \in hits : i <= j

RECURSIVE Flatten(_)
Flatten(ss) == IF ss = <<>> THEN <<>> ELSE Head(ss) \o Flatten(Tail(ss))

\* sep.join(ss)
RECURSIVE Join(_, _)
Join(ss, sep) ==
    IF ss = <<>> THEN <<>>
    ELSE IF Len(ss) = 1 THEN ss[1]
    ELSE ss[1] \o <<sep>> \o Join(Tail(ss), sep)

RECURSIVE Repeat(_, _)
Repeat(s, k) == IF k <= 0 THEN <<>> ELSE s \o Repeat(s, k - 1)

(***************************************************************************)
(* get_debug_log_path: os.path.join(None, filename) raises TypeError.      *)
(***************************************************************************)
get_debug_log_path_raises ==
    debug_folder_global = None /\ folder_daily_global = None

(***************************************************************************)
(* _repair_chassis_module_xml                                              *)
(***************************************************************************)
\* the stack walk: the number of opening tags left on the stack
RECURSIVE unclosed_positions(_, _, _)
unclosed_positions(s, i, depth) ==
    IF i > Len(s) THEN depth
    ELSE IF s[i] = OPEN_CM THEN unclosed_positions(s, i + 1, depth + 1)
    ELSE IF s[i] = CLOSE_CM
         THEN unclosed_positions(s, i + 1, IF depth > 0 THEN depth - 1 ELSE 0)
    ELSE unclosed_positions(s, i + 1, depth)

insertion_candidates == <<Close("chassis-inventory"), Close("chassis"), Close("inventory"), Close("fpc-information")>>

\* the first candidate, in list order, found before rpc_end; 0 when none is
RECURSIVE first_candidate(_, _, _)
first_candidate(s, rpc_end, n) ==
    IF n > Len(insertion_candidates) THEN 0
    ELSE IF RFindBefore(s, insertion_candidates[n], rpc_end) # 0 THEN n
    ELSE first_candidate(s, rpc_end, n + 1)

\* index of the first token after the inserted text, when </rpc-reply> exists
insert_pos(s, rpc_end) ==
    LET n == first_candidate(s, rpc_end, 1)
    IN  IF n = 0 THEN rpc_end
        ELSE RFindBefore(s, insertion_candidates[n], rpc_end) + 1

missing_tags(k) == Repeat(<<Indent(4), CLOSE_CM, NL>>, k)

insert_missing_closes(s, k) ==
    LET rpc_end == RFindBefore(s, CLOSE_RPC, Len(s) + 1)
    IN  IF rpc_end # 0
        THEN InsertAt(s, insert_pos(s, rpc_end), <<NL>> \o missing_tags(k))
        ELSE s \o missing_tags(k)

_repair_chassis_module_xml_single(s) ==
    IF Count(s, OPEN_CM) > Count(s, CLOSE_CM)
    THEN insert_missing_closes(s, 1)
    ELSE s

_repair_chassis_module_xml(s) ==
    IF get_debug_log_path_raises THEN s
    ELSE LET opens  == Count(s, OPEN_CM)
             closes == Count(s, CLOSE_CM)
         IN  IF opens = closes THEN s
             ELSE IF opens > closes
             THEN LET k   == unclosed_positions(s, 1, 0)
                      rep == insert_missing_closes(s, k)
                  IN  IF k = 0 THEN s
                      ELSE IF Count(rep, OPEN_CM) = Count(rep, CLOSE_CM)
                           THEN rep ELSE s
             ELSE s

(***************************************************************************)
(* _repair_xml_tag_mismatches                                              *)
(***************************************************************************)
\* tag_pattern matches <n>, </n>, <n/> and <?xml ...?>; only </n> is closing
is_tag(t)     == t.k \in {"open", "close", "empty", "decl"}
is_closing(t) == t.k = "close"

simple_elements  == {"part-number", "serial-number", "description", "model", "version"}
generic_elements == {"model", "part-number", "serial-number", "description", "version", "name"}
module_closers   == {"chassis-module", "chassis-sub-module", "chassis-re-disk-module"}

Top(stack) == stack[Len(stack)]
Pop(stack) == SubSeq(stack, 1, Len(stack) - 1)
PopIfTop(stack, n) ==
    IF Len(stack) > 0 /\ Top(stack) = n THEN Pop(stack) ELSE stack

\* the loop over the tags: the repairs, as <<pos, expected>> in document order
RECURSIVE repairs(_, _, _)
repairs(x, i, stack) ==
    IF i > Len(x) THEN <<>>
    ELSE IF ~is_tag(x[i]) THEN repairs(x, i + 1, stack)
    ELSE IF ~is_closing(x[i]) THEN repairs(x, i + 1, Append(stack, x[i].n))
    ELSE IF stack = <<>> THEN repairs(x, i + 1, stack)
    ELSE IF Top(stack) = x[i].n THEN repairs(x, i + 1, Pop(stack))
    ELSE LET expected == Top(stack)
             actual   == x[i].n
         IN  IF expected = "model" /\ actual = "chassis-re-disk-module"
             THEN <<<<i, expected>>>>
                  \o repairs(x, i + 1, PopIfTop(Pop(stack), "chassis-re-disk-module"))
             ELSE IF expected \in simple_elements /\ actual \in module_closers
             THEN <<<<i, expected>>>>
                  \o repairs(x, i + 1, PopIfTop(Pop(stack), actual))
             ELSE IF expected \in generic_elements
             THEN <<<<i, expected>>>> \o repairs(x, i + 1, Pop(stack))
             ELSE repairs(x, i + 1, stack)

\* the repairs applied from the last to the first
RECURSIVE apply_repairs(_, _)
apply_repairs(x, rs) ==
    IF rs = <<>> THEN x
    ELSE LET r == rs[Len(rs)]
         IN  apply_repairs(InsertAt(x, r[1], <<Close(r[2]), NL, Indent(20)>>),
                           SubSeq(rs, 1, Len(rs) - 1))

_repair_xml_tag_mismatches(x) == apply_repairs(x, repairs(x, 1, <<>>))

(***************************************************************************)
(* _extract_xml_fragment                                                   *)
(***************************************************************************)
XML_DECL   == [k |-> "decl", n |-> "?xml", d |-> <<>>]

\* re.sub of the ANSI escape sequences and control characters
RECURSIVE strip_control_codes(_)
strip_control_codes(b) ==
    IF b = <<>> THEN <<>>
    ELSE IF Head(b) = ANSI THEN strip_control_codes(Tail(b))
    ELSE <<Head(b)>> \o strip_control_codes(Tail(b))

\* the closing tags appended to the part that precedes a nested <rpc-reply
repair_tags(first_part) ==
    LET chassis_opens  == Count(first_part, OPEN_CM)
        chassis_closes == Count(first_part, CLOSE_CM)
        sub_close ==
            IF Count(first_part, Open("chassis-sub-module")) > 0
               /\ RFindBefore(first_part, Open("chassis-sub-module"), Len(first_part) + 1)
                  > RFindBefore(first_part, Close("chassis-sub-module"), Len(first_part) + 1)
            THEN <<Indent(20), Close("chassis-sub-module"), NL>> ELSE <<>>
        inv_close ==
            IF Count(first_part, Open("chassis-inventory")) > 0
               /\ RFindBefore(first_part, Close("chassis-inventory"), Len(first_part) + 1)
                  < RFindBefore(first_part, Open("chassis-inventory"), Len(first_part) + 1)
            THEN <<Indent(12), Close("chassis-inventory"), NL>> ELSE <<>>
    IN  IF chassis_opens > chassis_closes
        THEN <<NL>> \o sub_close
             \o Repeat(<<Indent(16), CLOSE_CM, NL>>, chassis_opens - chassis_closes)
             \o inv_close \o <<Indent(8), CLOSE_RPC>>
        ELSE <<NL, Indent(8), CLOSE_RPC>>

\* the while loop: the list of blocks found from index pos on
rpc_blocks_first_only(b, pos) ==
    LET start_pos == Find(b, RPC_OPEN, pos)
        end_tag   == IF start_pos = 0 THEN 0 ELSE Find(b, CLOSE_RPC, start_pos)
    IN  IF start_pos = 0 \/ end_tag = 0 THEN <<>>
        ELSE <<SubSeq(b, start_pos, end_tag)>>

RECURSIVE rpc_blocks(_, _)
rpc_blocks(b, pos) ==
    LET start_pos == Find(b, RPC_OPEN, pos)
        end_tag   == IF start_pos = 0 THEN 0 ELSE Find(b, CLOSE_RPC, start_pos)
    IN  IF start_pos = 0 \/ end_tag = 0 THEN <<>>
        ELSE LET corruption_start == Find(SubSeq(b, 1, end_tag), RPC_OPEN, start_pos + 1)
             IN  IF corruption_start # 0
                 THEN LET first_part == SubSeq(b, start_pos, corruption_start - 1)
                      IN  <<first_part \o repair_tags(first_part)>>
                          \o rpc_blocks(b, corruption_start)
                 ELSE <<SubSeq(b, start_pos, end_tag)>> \o rpc_blocks(b, end_tag + 1)

\* the tokens that begin with the characters of start_pat
tokens_with_prefix(start_pat) ==
    CASE start_pat = "<rpc-reply"       -> {RPC_OPEN}
      [] start_pat = "<chassis"         -> {Open("chassis"), OPEN_CM, Open("chassis-sub-module"), Open("chassis-inventory")}
      [] start_pat = "<configuration"   -> {Open("configuration")}
      [] start_pat = "<inventory"       -> {Open("inventory")}
      [] start_pat = "<?xml"            -> {XML_DECL}
      [] start_pat = "<fpc-information" -> {Open("fpc-information")}
      [] start_pat = "<fpc"             -> {Open("fpc"), Open("fpc-information")}

\* Close("None") stands for the end_pat None of the pattern ('<?xml', None)
patterns_declaration_last ==
    << <<"<rpc-reply", CLOSE_RPC>>, <<"<chassis", Close("chassis")>>,
       <<"<configuration", Close("configuration")>>, <<"<inventory", Close("inventory")>>,
       <<"<fpc-information", Close("fpc-information")>>, <<"<fpc", Close("fpc")>>,
       <<"<?xml", Close("None")>> >>

patterns ==
    << <<"<rpc-reply", CLOSE_RPC>>, <<"<chassis", Close("chassis")>>,
       <<"<configuration", Close("configuration")>>, <<"<inventory", Close("inventory")>>,
       <<"<?xml", Close("None")>>, <<"<fpc-information", Close("fpc-information")>>, <<"<fpc", Close("fpc")>> >>


FirstIn(b, S) ==
    LET hits == {i \in 1..Len(b) : b[i] \in S}
    IN  IF hits = {} THEN 0 ELSE CHOOSE i \in hits : \A j \in hits : i <= j

LastIn(b, S) ==
    LET hits == {i \in 1..Len(b) : b[i] \in S}
    IN  IF hits = {} THEN 0 ELSE CHOOSE i \in hits : \A j \in hits : j <= i

\* the tokens that hold '<' and '>': a tag token begins with '<' and ends
\* with '>', so the last '>' of a text lies after its first '<' as soon as
\* the text holds one tag
TagTokens(b) == {b[i] : i \in 1..Len(b)} \ {t \in {b[i] : i \in 1..Len(b)} : t.k = "text"}

\* the fallback: the loop over patterns, then first '<' to last '>'
RECURSIVE pattern_fallback(_, _)
pattern_fallback(b, n) ==
    IF n > Len(patterns)
    THEN LET first_lt == FirstIn(b, TagTokens(b))
             last_gt  == LastIn(b, TagTokens(b))
         IN  IF first_lt # 0 /\ last_gt >= first_lt
             THEN SubSeq(b, first_lt, last_gt) ELSE <<>>
    ELSE LET s == FirstIn(b, tokens_with_prefix(patterns[n][1]))
             e == IF patterns[n][2] = Close("None") THEN LastIn(b, TagTokens(b))
                  ELSE RFindBefore(b, patterns[n][2], Len(b) + 1)
         IN  IF s # 0 /\ e # 0 /\ (e > s \/ (e = s /\ patterns[n][2] = Close("None")))
             THEN SubSeq(b, s, e)
             ELSE pattern_fallback(b, n + 1)

_extract_xml_fragment(raw) ==
    IF raw = <<>> THEN <<>>
    ELSE LET b      == strip_control_codes(raw)
             blocks == rpc_blocks(b, 1)
         IN  IF blocks # <<>> THEN Join(blocks, NL)
             ELSE pattern_fallback(b, 1)

(***************************************************************************)
(* minidom                                                                 *)
(***************************************************************************)
\* a well-formed run of elements nested deeper than the interpreter's
\* recursion limit: expat parses it, the recursive DOM walks do not survive it
DEEP == [k |-> "deep", n |-> "<a><a>...</a></a>", d |-> <<>>]

WhiteSpace == {NL, Indent(4), Indent(8), Indent(12), Indent(16), Indent(20)}

\* minidom.parseString succeeds: an optional declaration at the very start,
\* one root element, proper nesting, nothing but white space around the root
RECURSIVE well_formed_from(_, _, _, _)
well_formed_from(x, i, stack, roots) ==
    IF i > Len(x) THEN stack = <<>> /\ roots = 1
    ELSE LET t == x[i]
         IN  CASE t.k = "decl"  -> i = 1 /\ well_formed_from(x, i + 1, stack, roots)
               [] t.k = "ctl"   -> FALSE
               [] t.k = "text"  ->
                    /\ (stack = <<>> => t \in WhiteSpace)
                    /\ well_formed_from(x, i + 1, stack, roots)
               [] t.k \in {"empty", "deep"} ->
                    IF stack = <<>>
                    THEN roots = 0 /\ well_formed_from(x, i + 1, stack, 1)
                    ELSE well_formed_from(x, i + 1, stack, roots)
               [] t.k = "open"  ->
                    IF stack = <<>>
                    THEN roots = 0 /\ well_formed_from(x, i + 1, <<t.n>>, 1)
                    ELSE well_formed_from(x, i + 1, Append(stack, t.n), roots)
               [] t.k = "close" ->
                    /\ stack # <<>>
                    /\ Top(stack) = t.n
                    /\ well_formed_from(x, i + 1, Pop(stack), roots)

parseString_ok(x) == well_formed_from(x, 1, <<>>, 0)

\* getElementsByTagName and toxml recurse over the tree: RecursionError
recursion_error(x) == \E i \in 1..Len(x) : x[i] = DEEP

(***************************************************************************)
(* _parse_fragments_to_dom                                                 *)
(***************************************************************************)
\* the element names that begin with the characters of tag
names_with_prefix(tag) ==
    CASE tag = "chassis" ->
            {"chassis", "chassis-module", "chassis-sub-module", "chassis-inventory",
             "chassis-re-disk-module", "chassis-sub-sub-module", "chassis-sub-sub-sub-module"}
      [] tag = "fpc" -> {"fpc", "fpc-information"}
      [] OTHER -> {tag}

\* re.findall(r'(<tag[\s\S]*?</tag>)', x): leftmost, shortest, not overlapping
RECURSIVE regex_blocks(_, _, _)
regex_blocks(x, tag, pos) ==
    LET starts == {i \in pos..Len(x) :
                      x[i].k \in {"open", "empty"} /\ x[i].n \in names_with_prefix(tag)}
        s == IF starts = {} THEN 0 ELSE CHOOSE i \in starts : \A j \in starts : i <= j
        e == IF s = 0 THEN 0 ELSE Find(x, Close(tag), s + 1)
    IN  IF s = 0 \/ e = 0 THEN <<>>
        ELSE <<SubSeq(x, s, e)>> \o regex_blocks(x, tag, e + 1)

\* the three re.sub calls of the salvage
RECURSIVE clean_block(_)
clean_block(blk) ==
    IF blk = <<>> THEN <<>>
    ELSE IF Head(blk) \in {XML_DECL, RPC_OPEN, CLOSE_RPC} THEN clean_block(Tail(blk))
    ELSE <<Head(blk)>> \o clean_block(Tail(blk))

RECURSIVE valid_chassis_blocks(_)
valid_chassis_blocks(blks) ==
    IF blks = <<>> THEN <<>>
    ELSE LET c == clean_block(Head(blks))
         IN  (IF parseString_ok(<<Open("root")>> \o c \o <<Close("root")>>)
              THEN <<c>> ELSE <<>>) \o valid_chassis_blocks(Tail(blks))

RECURSIVE each_followed_by(_, _)
each_followed_by(ss, sep) ==
    IF ss = <<>> THEN <<>> ELSE Head(ss) \o <<sep>> \o each_followed_by(Tail(ss), sep)

\* the per-block salvage: the documents it adds to valid_docs
salvage_rpc_block(rpc_content) ==
    LET valid_blocks == valid_chassis_blocks(regex_blocks(rpc_content, "chassis-module", 1))
        salvaged_xml == <<RPC_OPEN, Open("chassis-inventory"), Open("chassis")>> \o each_followed_by(valid_blocks, NL)
                        \o <<Close("chassis"), Close("chassis-inventory"), CLOSE_RPC>>
    IN  IF valid_blocks # <<>> /\ parseString_ok(salvaged_xml)
        THEN <<salvaged_xml>> ELSE <<>>

\* the repairs applied to one block or to a single document
repair_block(x) ==
    _repair_xml_tag_mismatches(
        IF Count(x, OPEN_CM) > Count(x, CLOSE_CM) THEN _repair_chassis_module_xml(x) ELSE x)

\* the while loop of the multi-document path: valid_docs
RECURSIVE valid_docs(_, _)
valid_docs(frag, pos) ==
    LET start_pos == Find(frag, RPC_OPEN, pos)
        end_tag   == IF start_pos = 0 THEN 0 ELSE Find(frag, CLOSE_RPC, start_pos)
    IN  IF start_pos = 0 \/ end_tag = 0 THEN <<>>
        ELSE LET rpc_content == repair_block(SubSeq(frag, start_pos, end_tag))
             IN  (IF parseString_ok(rpc_content) /\ ~recursion_error(rpc_content)
                  THEN <<rpc_content>>
                  ELSE salvage_rpc_block(rpc_content))
                 \o valid_docs(frag, end_tag + 1)

candidate_tags(hint) ==
    (IF hint # None THEN <<hint>> ELSE <<>>)
    \o <<"rpc-reply", "configuration", "chassis", "interfaces", "inventory",
         "fpc-information", "fpc", "chassis-module">>

RECURSIVE keep_parseable(_)
keep_parseable(blks) ==
    IF blks = <<>> THEN <<>>
    ELSE (IF parseString_ok(Head(blks)) THEN <<Head(blks)>> ELSE <<>>)
         \o keep_parseable(Tail(blks))

RECURSIVE salvage_blocks(_, _, _)
salvage_blocks(frag, tags, n) ==
    IF n > Len(tags) THEN <<>>
    ELSE keep_parseable(regex_blocks(frag, tags[n], 1)) \o salvage_blocks(frag, tags, n + 1)

Document(x) == [kind |-> "doc", doc |-> x]
ReturnsNone == [kind |-> "None", doc |-> <<>>]
Raises(e)   == [kind |-> e, doc |-> <<>>]

\* lines 3450-3482: the direct parse, then the salvage by candidate tag
parse_or_salvage(frag, hint) ==
    IF parseString_ok(frag) THEN Document(frag)
    ELSE LET valid_blocks == salvage_blocks(frag, candidate_tags(hint), 1)
             wrapped == <<Open("root"), NL>> \o Join(valid_blocks, NL) \o <<NL, Close("root")>>
         IN  IF valid_blocks # <<>> /\ parseString_ok(wrapped)
             THEN Document(wrapped) ELSE ReturnsNone

RECURSIVE first_with_modules(_)
first_with_modules(docs) ==
    IF docs = <<>> THEN <<>>
    ELSE IF Count(Head(docs), OPEN_CM) > 0 THEN Head(docs)
    ELSE first_with_modules(Tail(docs))

\* lines 3393-3434: the parsed blocks combined under one <root>
combine(docs, frag, hint) ==
    LET combined_xml == <<Open("root"), NL>> \o each_followed_by(docs, NL) \o <<Close("root")>>
    IN  IF \E i \in 1..Len(docs) : recursion_error(docs[i])
        THEN Raises("RecursionError")
        ELSE IF parseString_ok(combined_xml) THEN Document(combined_xml)
        ELSE IF first_with_modules(docs) # <<>> THEN Document(first_with_modules(docs))
        ELSE parse_or_salvage(frag, hint)

_parse_fragments_to_dom(frag, hint) ==
    IF frag = <<>> THEN ReturnsNone
    ELSE IF Count(frag, RPC_OPEN) > 1
    THEN IF get_debug_log_path_raises THEN Raises("TypeError")
         ELSE LET docs == valid_docs(frag, 1)
              IN  IF docs # <<>> THEN combine(docs, frag, hint)
                  ELSE parse_or_salvage(frag, hint)
    ELSE IF get_debug_log_path_raises /\ Count(frag, OPEN_CM) > Count(frag, CLOSE_CM)
         THEN Raises("TypeError")
         ELSE parse_or_salvage(repair_block(frag), hint)

(***************************************************************************)
(* str and re on the characters: a str is the sequence of its characters.  *)
(***************************************************************************)
DigitChars == <<"0", "1", "2", "3", "4", "5", "6", "7", "8", "9">>
LowerChars == <<"a", "b", "c", "d", "e", "f", "g", "h", "i", "j", "k", "l", "m",
                "n", "o", "p", "q", "r", "s", "t", "u", "v", "w", "x", "y", "z">>
UpperChars == <<"A", "B", "C", "D", "E", "F", "G", "H", "I", "J", "K", "L", "M",
                "N", "O", "P", "Q", "R", "S", "T", "U", "V", "W", "X", "Y", "Z">>

\* \d, \s and \w of re
DigitClass == {DigitChars[i] : i \in 1..Len(DigitChars)}
SpaceClass == {" ", "\t", "\n", "\r"}
WordClass  == DigitClass \cup {LowerChars[i] : i \in 1..Len(LowerChars)}
              \cup {UpperChars[i] : i \in 1..Len(UpperChars)} \cup {"_"}

\* s.upper()
upper(s) ==
    [i \in 1..Len(s) |->
        IF \E n \in 1..Len(LowerChars) : LowerChars[n] = s[i]
        THEN UpperChars[CHOOSE n \in 1..Len(LowerChars) : LowerChars[n] = s[i]]
        ELSE s[i]]

\* s[i:].startswith(p), i being 1-based
matches_at(s, p, i) == i + Len(p) - 1 <= Len(s) /\ SubSeq(s, i, i + Len(p) - 1) = p

\* p in s
contains(s, p) == \E i \in 1..(Len(s) + 1) : matches_at(s, p, i)

\* s.lstrip(chars), s.rstrip(chars), s.strip(chars)
RECURSIVE lstrip(_, _)
lstrip(s, chars) ==
    IF s # <<>> /\ Head(s) \in chars THEN lstrip(Tail(s), chars) ELSE s

RECURSIVE rstrip(_, _)
rstrip(s, chars) ==
    IF s # <<>> /\ s[Len(s)] \in chars THEN rstrip(SubSeq(s, 1, Len(s) - 1), chars) ELSE s

strip_chars(s, chars) == rstrip(lstrip(s, chars), chars)

\* s.strip()
strip(s) == strip_chars(s, SpaceClass)

\* s.replace(old, new), old not empty
RECURSIVE replace(_, _, _)
replace(s, old, new) ==
    IF s = <<>> THEN <<>>
    ELSE IF matches_at(s, old, 1)
    THEN new \o replace(SubSeq(s, Len(old) + 1, Len(s)), old, new)
    ELSE <<Head(s)>> \o replace(Tail(s), old, new)

\* s.isdigit()
isdigit(s) == s # <<>> /\ \A i \in 1..Len(s) : s[i] \in DigitClass

\* int(s) of a run of digits
RECURSIVE int(_)
int(s) ==
    IF s = <<>> THEN 0
    ELSE 10 * int(SubSeq(s, 1, Len(s) - 1))
         + (CHOOSE i \in 1..Len(DigitChars) : DigitChars[i] = s[Len(s)]) - 1

\* str(n) of a natural number
RECURSIVE str(_)
str(n) ==
    IF n < 10 THEN <<DigitChars[n + 1]>> ELSE str(n \div 10) \o <<DigitChars[(n % 10) + 1]>>

\* the index after the longest run of characters of one class that starts at i
RECURSIVE run_end(_, _, _)
run_end(s, i, class) ==
    IF i <= Len(s) /\ s[i] \in class THEN run_end(s, i + 1, class) ELSE i

\* re.search(r'\d+', s).group(0), or the empty string when there is no match
first_digits(s) ==
    LET starts == {i \in 1..Len(s) : s[i] \in DigitClass}
    IN  IF starts = {} THEN <<>>
        ELSE LET i == CHOOSE i \in starts : \A j \in starts : i <= j
             IN  SubSeq(s, i, run_end(s, i, DigitClass) - 1)

\* re.search(r'FPC\s*(\d+)', s, re.IGNORECASE).group(1), or the empty string
fpc_digits(s) ==
    LET digits_from(i) == run_end(s, i + 3, SpaceClass)
        upper_s == upper(s)
        starts == {i \in 1..Len(s) :
                     /\ matches_at(upper_s, <<"F", "P", "C">>, i)
                     /\ digits_from(i) <= Len(s)
                     /\ s[digits_from(i)] \in DigitClass}
    IN  IF starts = {} THEN <<>>
        ELSE LET i == CHOOSE i \in starts : \A j \in starts : i <= j
             IN  SubSeq(s, digits_from(i), run_end(s, digits_from(i), DigitClass) - 1)

\* re.sub(r'\s+', ' ', s) with min_run 1, re.sub(r'\s{2,}', ' ', s) with 2,
\* and with other classes re.sub(r'[\r\n]+', ' ', s)
RECURSIVE collapse(_, _, _)
collapse(s, class, min_run) ==
    IF s = <<>> THEN <<>>
    ELSE LET e == run_end(s, 1, class)
         IN  IF e - 1 >= min_run
             THEN <<" ">> \o collapse(SubSeq(s, e, Len(s)), class, min_run)
             ELSE <<Head(s)>> \o collapse(Tail(s), class, min_run)

(***************************************************************************)
(* minidom on the tokens of a parsed document                              *)
(***************************************************************************)
\* a text node whose characters the code reads
Chars(s) == Text("chars", s)

\* the index of the closing tag of the element that opens before index j,
\* depth being the number of elements open at j
RECURSIVE close_of(_, _, _)
close_of(doc, j, depth) ==
    IF j > Len(doc) THEN Len(doc)
    ELSE IF doc[j].k = "open" THEN close_of(doc, j + 1, depth + 1)
    ELSE IF doc[j].k = "close"
    THEN IF depth = 1 THEN j ELSE close_of(doc, j + 1, depth - 1)
    ELSE close_of(doc, j + 1, depth)

element_end(doc, i) == IF doc[i].k = "empty" THEN i ELSE close_of(doc, i + 1, 1)

\* node.getElementsByTagName(tag) of the element at index i: the indices of
\* its descendants of that name
getElementsByTagName(doc, i, tag) ==
    {j \in (i + 1)..(element_end(doc, i) - 1) : doc[j].k \in {"open", "empty"} /\ doc[j].n = tag}

\* doc.getElementsByTagName(tag), in document order, from index i on
RECURSIVE document_elements(_, _, _)
document_elements(doc, tag, i) ==
    IF i > Len(doc) THEN <<>>
    ELSE IF doc[i].k \in {"open", "empty"} /\ doc[i].n = tag
    THEN <<i>> \o document_elements(doc, tag, i + 1)
    ELSE document_elements(doc, tag, i + 1)

\* nds[0].firstChild in a list of one, the empty list when nds is empty or
\* nds[0] has no child
first_child(doc, nds) ==
    IF nds = {} THEN <<>>
    ELSE LET j == CHOOSE j \in nds : \A h \in nds : j <= h
         IN  IF doc[j].k = "open" /\ doc[j + 1].k # "close" THEN <<doc[j + 1]>> ELSE <<>>

\* the data of the first child of the first tag element below i, in a list
\* of one; the empty list when there is none or when reading .data raises
\* AttributeError because the child is an element
child_text(doc, i, tag) ==
    LET child == first_child(doc, getElementsByTagName(doc, i, tag))
    IN  IF child # <<>> /\ child[1].k = "text" THEN <<child[1].d>> ELSE <<>>

(***************************************************************************)
(* _clean_label                                                            *)
(***************************************************************************)
\* the alternatives of the pattern of line 3489, in the order it tries them
label_keywords ==
    <<<<"S", "/", "N">>, <<"S", "N">>, <<"R", "E", "V">>, <<"r", "e", "v">>,
      <<"s", "e", "r", "i", "a", "l">>,
      <<"s", "e", "r", "i", "a", "l", "-", "n", "u", "m", "b", "e", "r">>,
      <<"p", "a", "r", "t", "-", "n", "u", "m", "b", "e", "r">>>>

\* \b(kw)\b[:\s]*[\w\-\/]+ matched at i without regard to case: the index
\* after the match, 0 when it does not match
keyword_match_end(s, i, kw) ==
    LET after == i + Len(kw)
        values_from == run_end(s, after, {":"} \cup SpaceClass)
        values_end == run_end(s, values_from, WordClass \cup {"-", "/"})
    IN  IF /\ matches_at(upper(s), upper(kw), i)
           /\ (i = 1 \/ s[i - 1] \notin WordClass)
           /\ (after > Len(s) \/ s[after] \notin WordClass)
           /\ values_end > values_from
        THEN values_end ELSE 0

label_match_end(s, i) ==
    LET hits == {n \in 1..Len(label_keywords) : keyword_match_end(s, i, label_keywords[n]) > 0}
    IN  IF hits = {} THEN 0
        ELSE keyword_match_end(s, i, label_keywords[CHOOSE n \in hits : \A m \in hits : n <= m])

\* re.sub of the pattern by the empty string, from index i on
RECURSIVE remove_label_keywords(_, _)
remove_label_keywords(s, i) ==
    IF i > Len(s) THEN <<>>
    ELSE IF label_match_end(s, i) > 0 THEN remove_label_keywords(s, label_match_end(s, i))
    ELSE <<s[i]>> \o remove_label_keywords(s, i + 1)

_clean_label(lbl) ==
    IF lbl = <<>> THEN <<>>
    ELSE LET s1 == collapse(lbl, {"\r", "\n"}, 1)
             s2 == strip(collapse(s1, SpaceClass, 2))
             s3 == remove_label_keywords(s2, 1)
             s4 == strip_chars(s3, {" ", ",", ";", "-"})
         IN  IF isdigit(s4) THEN <<>> ELSE s4

(***************************************************************************)
(* _get_better_module_description                                          *)
(***************************************************************************)
UNKNOWN_MODULE == <<"U", "n", "k", "n", "o", "w", "n", " ", "M", "o", "d", "u", "l", "e">>

\* lines 3528-3539: the cleaned description when it is long enough
description_or_default(doc, ch) ==
    LET desc_child == first_child(doc, getElementsByTagName(doc, ch, "description"))
    IN  IF desc_child = <<>> THEN UNKNOWN_MODULE
        ELSE IF desc_child[1].k # "text" THEN UNKNOWN_MODULE
        ELSE LET d1 == collapse(strip(desc_child[1].d), SpaceClass, 1)
                 d2 == replace(d1, <<"&", "a", "m", "p", ";">>, <<"&">>)
                 d3 == replace(d2, <<"&", "l", "t", ";">>, <<"<">>)
                 desc == replace(d3, <<"&", "g", "t", ";">>, <<">">>)
             IN  IF Len(desc) > 10 THEN desc ELSE UNKNOWN_MODULE

\* lines 3508-3523: a model number that starts with MPC
mpc_description(doc, ch, model) ==
    LET desc_child == first_child(doc, getElementsByTagName(doc, ch, "description"))
    IN  IF desc_child = <<>> THEN model
        ELSE IF desc_child[1].k # "text" THEN UNKNOWN_MODULE
        ELSE LET desc == strip(desc_child[1].d)
                 spaced == replace(model, <<"-">>, <<" ">>)
             IN  IF contains(model, <<"M", "R", "A", "T", "E">>) /\ contains(desc, <<"1", "2", "x">>)
                 THEN spaced \o <<" ", "(", "1", "2", "x", " ", "Q", "S", "F", "P", "+", " ", "P", "o", "r", "t", "s", ")">>
                 ELSE IF contains(desc, <<"1", "6", "x">>) /\ contains(desc, <<"1", "0", "G", "E">>)
                 THEN spaced \o <<" ", "(", "1", "6", "x", " ", "1", "0", "G", "E", " ", "P", "o", "r", "t", "s", ")">>
                 ELSE IF contains(desc, <<"4", "8", "x">>)
                 THEN spaced \o <<" ", "(", "4", "8", "x", " ", "P", "o", "r", "t", "s", ")">>
                 ELSE model \o <<" ", "-", " ">> \o desc

\* a variant that never reads the model number: the description decides
_get_better_module_description_without_model(doc, ch) ==
    description_or_default(doc, ch)

_get_better_module_description(doc, ch) ==
    LET model_child == first_child(doc, getElementsByTagName(doc, ch, "model-number"))
    IN  IF model_child = <<>> THEN description_or_default(doc, ch)
        ELSE IF model_child[1].k # "text" THEN UNKNOWN_MODULE
        ELSE LET model == strip(model_child[1].d)
             IN  IF model # <<>> /\ model \notin {<<"N", "/", "A">>, <<"N", "o", "n", "e">>, <<>>}
                 THEN IF matches_at(model, <<"M", "P", "C">>, 1)
                      THEN mpc_description(doc, ch, model)
                      ELSE model
                 ELSE description_or_default(doc, ch)

(***************************************************************************)
(* _build_chassis_maps: the module map.  A dict is a function; a slot that *)
(* is None is the empty list, a slot that is set a list of one number.     *)
(***************************************************************************)
\* d[key] = value
dict_set(dict, key, value) ==
    [k \in DOMAIN dict \cup {key} |-> IF k = key THEN value ELSE dict[k]]

label_tags ==
    <<"model-number", "part-number", "part_number", "model", "description", "name", "label">>

\* lines 3708-3719
RECURSIVE extract_label_from_node(_, _, _)
extract_label_from_node(doc, node, t) ==
    IF t > Len(label_tags) THEN <<>>
    ELSE LET val == child_text(doc, node, label_tags[t])
             lab == IF val = <<>> THEN <<>> ELSE _clean_label(strip(val[1]))
         IN  IF lab # <<>> THEN lab ELSE extract_label_from_node(doc, node, t + 1)

\* lines 3736-3757: the slot of an fpc node, from <slot> and then from <name>
fpc_node_slot(doc, fpc_node) ==
    LET slot_text == child_text(doc, fpc_node, "slot")
        m == IF slot_text = <<>> THEN <<>> ELSE first_digits(strip(slot_text[1]))
        nm == child_text(doc, fpc_node, "name")
        m2 == IF nm = <<>> THEN <<>> ELSE fpc_digits(strip(nm[1]))
    IN  IF m # <<>> THEN <<int(m)>>
        ELSE IF m2 # <<>> THEN <<int(m2)>>
        ELSE <<>>

\* lines 3734-3773: the loop over the fpc nodes
RECURSIVE fpc_nodes_loop(_, _, _)
fpc_nodes_loop(doc, nodes, module_map) ==
    IF nodes = <<>> THEN module_map
    ELSE LET slot == fpc_node_slot(doc, Head(nodes))
             label == extract_label_from_node(doc, Head(nodes), 1)
         IN  IF slot # <<>> /\ label # <<>> /\ str(slot[1]) \notin DOMAIN module_map
             THEN fpc_nodes_loop(doc, Tail(nodes), dict_set(module_map, str(slot[1]), label))
             ELSE fpc_nodes_loop(doc, Tail(nodes), module_map)

slot_tags == <<"slot", "slot-number", "fpc">>

\* lines 3801-3810: the first of the slot tags that holds digits
RECURSIVE slot_from_tags(_, _, _)
slot_from_tags(doc, ch, t) ==
    IF t > Len(slot_tags) THEN <<>>
    ELSE LET val == child_text(doc, ch, slot_tags[t])
             mm == IF val = <<>> THEN <<>> ELSE first_digits(strip(val[1]))
         IN  IF mm # <<>> THEN <<int(mm)>> ELSE slot_from_tags(doc, ch, t + 1)

\* lines 3778-3813: the slot of a chassis-module, from <name> and then from
\* the slot tags
chassis_module_slot(doc, ch) ==
    LET nm == child_text(doc, ch, "name")
        m2 == IF nm = <<>> THEN <<>> ELSE fpc_digits(strip(nm[1]))
    IN  IF m2 # <<>> THEN <<int(m2)>> ELSE slot_from_tags(doc, ch, 1)

\* lines 3776-3848: the loop over the chassis-module nodes
RECURSIVE chassis_modules_loop(_, _, _)
chassis_modules_loop(doc, nodes, module_map) ==
    IF nodes = <<>> THEN module_map
    ELSE LET slot == chassis_module_slot(doc, Head(nodes))
             label == _get_better_module_description(doc, Head(nodes))
         IN  IF slot # <<>> /\ label # <<>>
                /\ label \notin {<<"N", "/", "A">>, <<"N", "o", "n", "e">>, <<"U", "n", "k", "n", "o", "w", "n">>, <<>>}
             THEN chassis_modules_loop(doc, Tail(nodes), dict_set(module_map, str(slot[1]), label))
             ELSE chassis_modules_loop(doc, Tail(nodes), module_map)

\* lines 4061-4072: the keys normalised, in the order of the dict
RECURSIVE normalize_keys(_, _, _)
normalize_keys(module_map, keys, nm) ==
    IF keys = <<>> THEN nm
    ELSE LET k == Head(keys)
             ks == IF isdigit(k) THEN str(int(k)) ELSE k
         IN  normalize_keys(module_map, Tail(keys), dict_set(nm, ks, module_map[k]))

\* the keys of a dict as a list; the keys the loops store are str(int), which
\* the normalisation maps to themselves, so their order does not matter
RECURSIVE keys_of(_)
keys_of(dict) ==
    IF DOMAIN dict = {} THEN <<>>
    ELSE LET k == CHOOSE k \in DOMAIN dict : TRUE
         IN  <<k>> \o keys_of([j \in DOMAIN dict \ {k} |-> dict[j]])

EmptyDict == [k \in {} |-> <<>>]

\* the module map _build_chassis_maps returns, or the exception of the parser
\* that line 3722 lets through to the caller
_build_chassis_maps(xml_frag) ==
    IF xml_frag = <<>> THEN [kind |-> "maps", module_map |-> EmptyDict]
    ELSE LET parsed_doc == _parse_fragments_to_dom(xml_frag, "fpc")
         IN  IF parsed_doc.kind = "None" THEN [kind |-> "maps", module_map |-> EmptyDict]
             ELSE IF parsed_doc.kind # "doc" THEN [kind |-> parsed_doc.kind, module_map |-> EmptyDict]
             ELSE LET doc == parsed_doc.doc
                      after_fpc == fpc_nodes_loop(doc, document_elements(doc, "fpc", 1), EmptyDict)
                      module_map == chassis_modules_loop(doc,
                                        document_elements(doc, "chassis-module", 1), after_fpc)
                  IN  [kind |-> "maps",
                       module_map |-> normalize_keys(module_map, keys_of(module_map), EmptyDict)]

(***************************************************************************)
(* _generate_realistic_serial                                              *)
(***************************************************************************)
\* hashlib.md5(s.encode('utf-8')).hexdigest().upper()[:10] for the strings
\* the model hashes
md5_table ==
    {<<<<"X", "_", "C", "h", "a", "s", "s", "i", "s", "_", "C", "h", "a", "s", "s", "i", "s">>,
       <<"8", "3", "B", "4", "2", "E", "E", "C", "0", "B">>>>,
     <<<<"X", "_", "F", "P", "C", "_", "F", "P", "C", " ", "7">>,
       <<"C", "F", "A", "D", "B", "F", "4", "A", "F", "8">>>>,
     <<<<"X", "_", "F", "P", "C", "_", "F", "P", "C", " ", "1">>,
       <<"3", "B", "F", "3", "6", "8", "C", "F", "3", "4">>>>,
     <<<<"X", "_", "C", "P", "U", "_", "F", "P", "C", " ", "7">>,
       <<"D", "1", "B", "6", "1", "0", "A", "3", "0", "D">>>>,
     <<<<"X", "_", "C", "P", "U", "_", "F", "P", "C", " ", "1">>,
       <<"5", "8", "2", "5", "D", "8", "B", "6", "6", "2">>>>,
     <<<<"X", "_", "F", "P", "M", "_", "F", "P", "M", " ", "B", "o", "a", "r", "d">>,
       <<"2", "F", "4", "F", "8", "A", "3", "F", "D", "C">>>>,
     <<<<"X", "_", "M", "I", "C", "_", "F", "P", "C", " ", "1">>,
       <<"4", "6", "5", "3", "8", "D", "A", "C", "7", "0">>>>,
     <<<<"X", "_", "R", "o", "u", "t", "i", "n", "g", " ", "E", "n", "g", "i", "n", "e", "_", "R", "o", "u", "t", "i", "n", "g", " ", "E", "n", "g", "i", "n", "e", " ", "0">>,
       <<"E", "5", "0", "5", "4", "5", "6", "5", "9", "F">>>>,
     <<<<"R", "3", ".", "K", "Y", "A", ".", "P", "E", "-", "M", "O", "B", "I", "L", "E", ".", "2", "_", "R", "o", "u", "t", "i", "n", "g", " ", "E", "n", "g", "i", "n", "e", "_", "R", "o", "u", "t", "i", "n", "g", " ", "E", "n", "g", "i", "n", "e", " ", "0">>,
       <<"A", "B", "5", "2", "2", "0", "7", "1", "9", "F">>>>,
     <<<<"X", "_", "M", "i", "d", "p", "l", "a", "n", "e", "_", "M", "i", "d", "p", "l", "a", "n", "e">>,
       <<"4", "E", "D", "3", "D", "6", "8", "4", "F", "E">>>>,
     <<<<"R", "3", ".", "K", "Y", "A", ".", "P", "E", "-", "M", "O", "B", "I", "L", "E", ".", "2", "_", "M", "i", "d", "p", "l", "a", "n", "e", "_", "M", "i", "d", "p", "l", "a", "n", "e">>,
       <<"4", "2", "9", "1", "3", "8", "D", "6", "9", "2">>>>,
     <<<<"R", "3", ".", "K", "Y", "A", ".", "P", "E", "-", "M", "O", "B", "I", "L", "E", ".", "2", "_", "C", "h", "a", "s", "s", "i", "s", "_", "C", "h", "a", "s", "s", "i", "s">>,
       <<"9", "4", "8", "B", "E", "7", "9", "C", "9", "7">>>>,
     <<<<"R", "3", ".", "K", "Y", "A", ".", "P", "E", "-", "M", "O", "B", "I", "L", "E", ".", "2", "_", "F", "P", "C", "_", "F", "P", "C", " ", "7">>,
       <<"F", "1", "E", "9", "3", "C", "E", "1", "5", "8">>>>,
     <<<<"R", "3", ".", "K", "Y", "A", ".", "P", "E", "-", "M", "O", "B", "I", "L", "E", ".", "2", "_", "F", "P", "C", "_", "F", "P", "C", " ", "1">>,
       <<"7", "3", "5", "D", "C", "D", "D", "B", "7", "0">>>>,
     <<<<"R", "3", ".", "K", "Y", "A", ".", "P", "E", "-", "M", "O", "B", "I", "L", "E", ".", "2", "_", "C", "P", "U", "_", "F", "P", "C", " ", "7">>,
       <<"3", "0", "7", "6", "A", "8", "1", "4", "B", "E">>>>,
     <<<<"R", "3", ".", "K", "Y", "A", ".", "P", "E", "-", "M", "O", "B", "I", "L", "E", ".", "2", "_", "C", "P", "U", "_", "F", "P", "C", " ", "1">>,
       <<"E", "3", "2", "E", "E", "6", "0", "9", "2", "1">>>>,
     <<<<"R", "3", ".", "K", "Y", "A", ".", "P", "E", "-", "M", "O", "B", "I", "L", "E", ".", "2", "_", "F", "P", "M", "_", "F", "P", "M", " ", "B", "o", "a", "r", "d">>,
       <<"B", "9", "C", "9", "7", "4", "5", "A", "9", "B">>>>,
     <<<<"R", "3", ".", "K", "Y", "A", ".", "P", "E", "-", "M", "O", "B", "I", "L", "E", ".", "2", "_", "M", "I", "C", "_", "F", "P", "C", " ", "1">>,
       <<"B", "D", "B", "0", "8", "2", "8", "1", "F", "9">>>>}

\* line 5125-5140: the prefix and the total length by component type
serial_pattern(component_type) ==
    CASE component_type = <<"C", "h", "a", "s", "s", "i", "s">>        -> [prefix |-> <<"J", "N">>,  total_length |-> 12]
      [] component_type = <<"M", "i", "d", "p", "l", "a", "n", "e">>       -> [prefix |-> <<"A", "C">>,  total_length |-> 8]
      [] component_type = <<"R", "o", "u", "t", "i", "n", "g", " ", "E", "n", "g", "i", "n", "e">> -> [prefix |-> <<"C", "A", "M">>, total_length |-> 8]
      [] component_type = <<"C", "o", "n", "t", "r", "o", "l", " ", "B", "o", "a", "r", "d">>  -> [prefix |-> <<"C", "A", "M">>, total_length |-> 8]
      [] component_type = <<"F", "P", "C">>            -> [prefix |-> <<"C", "A">>,  total_length |-> 8]
      [] component_type = <<"P", "E", "M">>            -> [prefix |-> <<"Q", "C", "S">>, total_length |-> 10]
      [] component_type = <<"F", "a", "n", " ", "T", "r", "a", "y">>       -> [prefix |-> <<"A", "C", "D">>, total_length |-> 8]
      [] component_type = <<"M", "I", "C">>            -> [prefix |-> <<"C", "A">>,  total_length |-> 8]
      [] component_type = <<"P", "I", "C">>            -> [prefix |-> <<"C", "A">>,  total_length |-> 8]
      [] component_type = <<"P", "D", "M">>            -> [prefix |-> <<"Q", "C", "S">>, total_length |-> 10]
      [] component_type = <<"F", "P", "M">>            -> [prefix |-> <<"C", "A", "D">>, total_length |-> 8]
      [] OTHER                               -> [prefix |-> <<"C", "A">>,  total_length |-> 8]

_generate_realistic_serial(component_type, node, slot_position) ==
    LET pattern == serial_pattern(component_type)
        suffix_length == pattern.total_length - Len(pattern.prefix)
        hash_input == node \o <<"_">> \o component_type \o <<"_">> \o slot_position
        hash_hex == (CHOOSE e \in md5_table : e[1] = hash_input)[2]
    IN  pattern.prefix \o SubSeq(hash_hex, 1, suffix_length)

(***************************************************************************)
(* validate_hardware_data                                                  *)
(***************************************************************************)
test_identifiers == {<<"7", "5", "0", "-", "0", "5", "6", "5", "1", "9">>, <<"J", "N", "1", "2", "3", "0", "E", "B", "8", "A", "F", "A">>, <<"A", "C", "R", "B", "2", "3", "6", "7">>}

R3_KYA_PE_MOBILE_2 == <<"R", "3", ".", "K", "Y", "A", ".", "P", "E", "-", "M", "O", "B", "I", "L", "E", ".", "2">>

\* lines 4955-4957: a Chassis or Midplane of R3.KYA.PE-MOBILE.2 that carries
\* serial, part number and model
r3_essential_from_xml(hardware, node) ==
    /\ node = R3_KYA_PE_MOBILE_2
    /\ hardware.component_type \in {<<"C", "h", "a", "s", "s", "i", "s">>, <<"M", "i", "d", "p", "l", "a", "n", "e">>}
    /\ hardware.serial_number \notin {<<>>, <<"N", "/", "A">>}
    /\ hardware.part_number \notin {<<>>, <<"N", "/", "A">>}
    /\ hardware.model_description \notin {<<>>, <<"N", "/", "A">>}

\* lines 4968-4970 and 4976-4978: FPC 7 with its serial, and its CPU
kept_as_actual(hardware) ==
    \/ /\ hardware.component_type = <<"F", "P", "C">>
       /\ contains(hardware.slot_position, <<"F", "P", "C", " ", "7">>)
       /\ hardware.serial_number = <<"C", "A", "K", "D", "0", "7", "7", "6">>
    \/ /\ hardware.component_type = <<"C", "P", "U">>
       /\ contains(hardware.slot_position, <<"F", "P", "C", " ", "7">>)
       /\ hardware.serial_number = <<"N", "/", "A">>

\* lines 4984-4985
has_test_text(hardware) ==
    \/ contains(upper(hardware.model_description), <<"T", "E", "S", "T">>)
    \/ contains(upper(hardware.comments), <<"T", "E", "S", "T">>)

\* lines 4987-5001: the description and the comments rewritten in place
clean_test_text(hardware) ==
    LET comp_type == hardware.component_type
        description ==
            IF contains(hardware.model_description, <<"T", "E", "S", "T", "1", "N", "W">>)
            THEN IF comp_type = <<"M", "I", "C">> THEN <<"M", "I", "C", " ", "I", "n", "t", "e", "r", "f", "a", "c", "e", " ", "C", "a", "r", "d">>
                 ELSE IF comp_type = <<"P", "I", "C">> THEN <<"P", "I", "C", " ", "I", "n", "t", "e", "r", "f", "a", "c", "e", " ", "C", "a", "r", "d">>
                 ELSE comp_type \o <<" ", "M", "o", "d", "u", "l", "e">>
            ELSE hardware.model_description
        comments ==
            IF contains(upper(hardware.comments), <<"T", "E", "S", "T">>)
            THEN replace(replace(hardware.comments, <<"T", "E", "S", "T", "1", "N", "W">>, <<"I", "n", "t", "e", "r", "f", "a", "c", "e", " ", "M", "o", "d", "u", "l", "e">>),
                         <<"T", "E", "S", "T">>, <<"M", "o", "d", "u", "l", "e">>)
            ELSE hardware.comments
    IN  [hardware EXCEPT !.model_description = description, !.comments = comments]

\* lines 5006-5028: whether a component with a test serial is kept
test_serial_kept(hardware, node) ==
    \/ hardware.component_type = <<"F", "P", "M">>
    \/ hardware.component_type = <<"F", "P", "C">> /\ contains(hardware.slot_position, <<"F", "P", "C", " ", "7">>)
    \/ r3_essential_from_xml(hardware, node) /\ hardware.is_actual

\* lines 5034-5045: the test serial of a component with a test part number
\* replaced
fix_test_serial(hardware, node) ==
    IF hardware.serial_number \in test_identifiers
    THEN [hardware EXCEPT
            !.serial_number = _generate_realistic_serial(hardware.component_type, node,
                                                         hardware.slot_position),
            !.comments = strip(hardware.comments \o <<" ", "[", "T", "e", "s", "t", " ", "s", "e", "r", "i", "a", "l", " ">> \o hardware.serial_number
                               \o <<" ", "r", "e", "p", "l", "a", "c", "e", "d", " ", "w", "i", "t", "h", " ", "r", "e", "a", "l", "i", "s", "t", "i", "c", " ", "s", "e", "r", "i", "a", "l", "]">>)]
    ELSE hardware

\* lines 4953-5050, one pass of the loop: what is appended to cleaned_list
validate_component(hardware, node) ==
    IF r3_essential_from_xml(hardware, node) THEN <<hardware>>
    ELSE IF kept_as_actual(hardware) THEN <<hardware>>
    ELSE IF has_test_text(hardware) THEN <<clean_test_text(hardware)>>
    ELSE IF hardware.serial_number \in test_identifiers
    THEN IF test_serial_kept(hardware, node) THEN <<hardware>> ELSE <<>>
    ELSE IF hardware.part_number \in test_identifiers THEN <<fix_test_serial(hardware, node)>>
    ELSE <<hardware>>

validate_hardware_data(hw_list, node) ==
    Flatten([i \in 1..Len(hw_list) |-> validate_component(hw_list[i], node)])

(***************************************************************************)
(* _build_hardware_map                                                     *)
(***************************************************************************)
\* the elements of a set of indices in document order
RECURSIVE in_order(_)
in_order(nds) ==
    IF nds = {} THEN <<>>
    ELSE LET j == CHOOSE j \in nds : \A h \in nds : j <= h
         IN  <<j>> \o in_order(nds \ {j})

NA == <<"N", "/", "A">>

\* the stripped text of the first tag_name element below parent; default when
\* there is none, when it is empty, or when reading it raises
_get_node_text(doc, parent, tag_name, default) ==
    LET data == child_text(doc, parent, tag_name)
        text == strip(data[1])
    IN  IF data = <<>> THEN default
        ELSE IF tag_name = "description" /\ contains(upper(text), <<"T", "E", "S", "T">>)
        THEN IF contains(upper(text), <<"T", "E", "S", "T", "1", "N", "W">>) THEN <<"I", "n", "t", "e", "r", "f", "a", "c", "e", " ", "M", "o", "d", "u", "l", "e">>
             ELSE replace(replace(text, <<"T", "E", "S", "T">>, <<"M", "o", "d", "u", "l", "e">>), <<"t", "e", "s", "t">>, <<"m", "o", "d", "u", "l", "e">>)
        ELSE text

_determine_component_type(name) ==
    LET name_upper == upper(name)
        startswith(p) == matches_at(name_upper, p, 1)
    IN  IF contains(name_upper, <<"C", "H", "A", "S", "S", "I", "S">>) THEN <<"C", "h", "a", "s", "s", "i", "s">>
        ELSE IF contains(name_upper, <<"M", "I", "D", "P", "L", "A", "N", "E">>) \/ contains(name_upper, <<"M", "I", "D", "-", "P", "L", "A", "N", "E">>) THEN <<"M", "i", "d", "p", "l", "a", "n", "e">>
        ELSE IF contains(name_upper, <<"F", "P", "M">>) \/ contains(name_upper, <<"F", "R", "O", "N", "T", " ", "P", "A", "N", "E", "L">>) THEN <<"F", "P", "M">>
        ELSE IF name_upper = <<"P", "D", "M">> THEN <<"P", "D", "M">>
        ELSE IF startswith(<<"P", "E", "M">>) THEN <<"P", "E", "M">>
        ELSE IF contains(name_upper, <<"R", "O", "U", "T", "I", "N", "G", " ", "E", "N", "G", "I", "N", "E">>) THEN <<"R", "o", "u", "t", "i", "n", "g", " ", "E", "n", "g", "i", "n", "e">>
        ELSE IF startswith(<<"C", "B">>) THEN <<"C", "o", "n", "t", "r", "o", "l", " ", "B", "o", "a", "r", "d">>
        ELSE IF startswith(<<"F", "P", "C">>) THEN <<"F", "P", "C">>
        ELSE IF name_upper = <<"C", "P", "U">> THEN <<"C", "P", "U">>
        ELSE IF startswith(<<"M", "I", "C">>) THEN <<"M", "I", "C">>
        ELSE IF startswith(<<"P", "I", "C">>) THEN <<"P", "I", "C">>
        ELSE IF startswith(<<"X", "C", "V", "R">>) THEN <<"X", "c", "v", "r">>
        ELSE IF contains(name_upper, <<"F", "A", "N">>) THEN <<"F", "a", "n", " ", "T", "r", "a", "y">>
        ELSE IF contains(name_upper, <<"P", "O", "W", "E", "R">>) \/ contains(name_upper, <<"P", "S", "U">>) THEN <<"P", "S", "U">>
        ELSE <<"C", "o", "m", "p", "o", "n", "e", "n", "t">>

\* an entry of the hardware list; is_actual is a key the entries built here
\* do not have, and hardware.get('is_actual') of validate_hardware_data is
\* then None
hardware_entry(component_type, slot_position, part_number, serial_number, model_description, version, comments) ==
    [component_type |-> component_type, slot_position |-> slot_position,
     part_number |-> part_number, serial_number |-> serial_number,
     model_description |-> model_description, version |-> version,
     status |-> <<"O", "n", "l", "i", "n", "e">>, comments |-> comments, is_actual |-> FALSE]

\* lines 5804-5832: the first document, without what follows it and what
\* precedes it
first_document(xml_frag) ==
    LET first_start == Find(xml_frag, RPC_OPEN, 1)
        first_end   == IF first_start = 0 THEN 0 ELSE Find(xml_frag, CLOSE_RPC, first_start)
        first       == IF Count(xml_frag, RPC_OPEN) > 1 /\ first_end # 0
                       THEN SubSeq(xml_frag, first_start, first_end) ELSE xml_frag
        end_pos     == RFindBefore(first, CLOSE_RPC, Len(first) + 1)
        ended       == IF end_pos # 0 THEN SubSeq(first, 1, end_pos) ELSE first
        visible     == {i \in 1..Len(ended) : ended[i] \notin WhiteSpace}
        xml_start   == Find(ended, RPC_OPEN, 1)
    IN  IF /\ \A i \in visible : (\E h \in visible : h < i) \/ ended[i] \notin {XML_DECL, RPC_OPEN}
           /\ xml_start # 0
        THEN SubSeq(ended, xml_start, Len(ended))
        ELSE ended

\* lines 5858-5882: the entry of the chassis
chassis_entry(doc, chassis, node) ==
    LET chassis_name   == _get_node_text(doc, chassis, "name", <<"C", "h", "a", "s", "s", "i", "s">>)
        chassis_serial == _get_node_text(doc, chassis, "serial-number", NA)
    IN  hardware_entry(<<"C", "h", "a", "s", "s", "i", "s">>, chassis_name,
                       _get_node_text(doc, chassis, "part-number", NA),
                       IF chassis_serial \notin {NA, <<>>} THEN chassis_serial
                       ELSE _generate_realistic_serial(<<"C", "h", "a", "s", "s", "i", "s">>, node, chassis_name),
                       _get_node_text(doc, chassis, "description", NA),
                       _get_node_text(doc, chassis, "version", NA),
                       <<"M", "a", "i", "n", " ", "c", "h", "a", "s", "s", "i", "s", " ", "e", "n", "c", "l", "o", "s", "u", "r", "e">>)

\* description and model number put together, lines 5912-5914 and 5953-5955
enhanced_description(description, model_number) ==
    IF model_number # NA /\ model_number # description
    THEN IF description # NA THEN description \o <<" ", "(">> \o model_number \o <<")">>
         ELSE model_number
    ELSE description

\* lines 6001-6018: a Xcvr below a chassis-sub-sub-module
xcvr_entry(doc, xcvr_module, pic_name, sub_name, name) ==
    LET xcvr_name == _get_node_text(doc, xcvr_module, "name", <<"U", "n", "k", "n", "o", "w", "n">>)
    IN  hardware_entry(<<"X", "c", "v", "r">>,
                       xcvr_name \o <<" ", "(">> \o pic_name \o <<",", " ">> \o sub_name \o <<",", " ">> \o name \o <<")">>,
                       _get_node_text(doc, xcvr_module, "part-number", NA),
                       _get_node_text(doc, xcvr_module, "serial-number", NA),
                       _get_node_text(doc, xcvr_module, "description", NA),
                       _get_node_text(doc, xcvr_module, "version", NA),
                       <<"T", "r", "a", "n", "s", "c", "e", "i", "v", "e", "r", " ", "i", "n", " ">> \o pic_name \o <<" ", "o", "f", " ">> \o sub_name \o <<" ", "i", "n", " ">> \o name)

\* lines 5974-6018: a chassis-sub-sub-module, left out when its part number
\* is BUILTIN, and the Xcvr modules below it
BUILTIN == <<"B", "U", "I", "L", "T", "I", "N">>

sub_sub_module_entries(doc, sub_sub_module, sub_name, name) ==
    LET pic_name        == _get_node_text(doc, sub_sub_module, "name", <<"U", "n", "k", "n", "o", "w", "n">>)
        pic_part_number == _get_node_text(doc, sub_sub_module, "part-number", NA)
        xcvr_modules    == in_order(getElementsByTagName(doc, sub_sub_module,
                                                         "chassis-sub-sub-sub-module"))
    IN  (IF pic_part_number # BUILTIN
         THEN <<hardware_entry(_determine_component_type(pic_name),
                               pic_name \o <<" ", "(">> \o sub_name \o <<",", " ">> \o name \o <<")">>,
                               pic_part_number,
                               _get_node_text(doc, sub_sub_module, "serial-number", NA),
                               _get_node_text(doc, sub_sub_module, "description", NA),
                               NA,
                               <<"P", "I", "C", " ", "m", "o", "d", "u", "l", "e", " ", "i", "n", " ">> \o sub_name \o <<" ", "o", "f", " ">> \o name)>>
         ELSE <<>>)
        \o [k \in 1..Len(xcvr_modules) |->
               xcvr_entry(doc, xcvr_modules[k], pic_name, sub_name, name)]

\* lines 5941-6018: a chassis-sub-module and what is below it
sub_module_entries(doc, sub_module, name) ==
    LET sub_name         == _get_node_text(doc, sub_module, "name", <<"U", "n", "k", "n", "o", "w", "n">>)
        sub_model_number == _get_node_text(doc, sub_module, "model-number", NA)
        sub_clei_code    == _get_node_text(doc, sub_module, "clei-code", <<>>)
        sub_sub_modules  == in_order(getElementsByTagName(doc, sub_module,
                                                          "chassis-sub-sub-module"))
    IN  <<hardware_entry(_determine_component_type(sub_name),
                         IF contains(sub_name, <<"C", "P", "U">>) \/ contains(sub_name, <<"M", "I", "C">>)
                         THEN sub_name \o <<" ", "(">> \o name \o <<")">> ELSE sub_name,
                         _get_node_text(doc, sub_module, "part-number", NA),
                         _get_node_text(doc, sub_module, "serial-number", NA),
                         enhanced_description(_get_node_text(doc, sub_module, "description", NA),
                                              sub_model_number),
                         _get_node_text(doc, sub_module, "version", NA),
                         <<"S", "u", "b", "-", "m", "o", "d", "u", "l", "e", " ", "o", "f", " ">> \o name
                         \o (IF sub_model_number # NA THEN <<",", " ", "M", "o", "d", "e", "l", ":", " ">> \o sub_model_number ELSE <<>>)
                         \o (IF sub_clei_code # <<>> THEN <<",", " ", "C", "L", "E", "I", ":", " ">> \o sub_clei_code ELSE <<>>))>>
        \o Flatten([k \in 1..Len(sub_sub_modules) |->
                       sub_sub_module_entries(doc, sub_sub_modules[k], sub_name, name)])

\* lines 6023-6044: a disk of a Routing Engine
disk_entry(doc, disk_module, name) ==
    LET disk_size   == _get_node_text(doc, disk_module, "disk-size", NA)
        disk_model  == strip(_get_node_text(doc, disk_module, "model", NA))
        disk_serial == strip(_get_node_text(doc, disk_module, "serial-number", NA))
        disk_description == _get_node_text(doc, disk_module, "description", NA)
    IN  hardware_entry(<<"S", "t", "o", "r", "a", "g", "e">>,
                       _get_node_text(doc, disk_module, "name", <<"U", "n", "k", "n", "o", "w", "n">>) \o <<" ", "(">> \o name \o <<")">>,
                       NA,
                       IF disk_serial # <<>> THEN disk_serial ELSE NA,
                       IF disk_size # NA THEN disk_description \o <<" ", "(">> \o disk_size \o <<"M", "B", ")">>
                       ELSE disk_description,
                       NA,
                       <<"S", "t", "o", "r", "a", "g", "e", " ", "d", "e", "v", "i", "c", "e", " ", "i", "n", " ">> \o name \o <<",", " ", "S", "i", "z", "e", ":", " ">> \o disk_size \o <<"M", "B">>
                       \o (IF disk_model # <<>> /\ disk_model # NA
                           THEN <<",", " ", "M", "o", "d", "e", "l", ":", " ">> \o disk_model ELSE <<>>))

\* lines 6049-6070: a USB device of a Routing Engine
usb_entry(doc, usb_module, name) ==
    LET usb_product == _get_node_text(doc, usb_module, "product", NA)
        usb_vendor  == _get_node_text(doc, usb_module, "vendor", NA)
        usb_description == _get_node_text(doc, usb_module, "description", NA)
    IN  hardware_entry(<<"U", "S", "B">>,
                       _get_node_text(doc, usb_module, "name", <<"U", "n", "k", "n", "o", "w", "n">>) \o <<" ", "(">> \o name \o <<")">>,
                       NA, NA,
                       IF usb_product # NA THEN usb_product \o <<" ", "(">> \o usb_description \o <<")">>
                       ELSE usb_description,
                       NA,
                       <<"U", "S", "B", " ", "d", "e", "v", "i", "c", "e", " ", "i", "n", " ">> \o name
                       \o (IF usb_vendor # NA THEN <<",", " ", "V", "e", "n", "d", "o", "r", ":", " ">> \o usb_vendor ELSE <<>>))

\* lines 5891-6070: a chassis-module and what is below it
module_entries(doc, module, node) ==
    LET name           == _get_node_text(doc, module, "name", <<"U", "n", "k", "n", "o", "w", "n">>)
        serial_number  == _get_node_text(doc, module, "serial-number", NA)
        model_number   == _get_node_text(doc, module, "model-number", NA)
        clei_code      == _get_node_text(doc, module, "clei-code", <<>>)
        component_type == _determine_component_type(name)
        model_comment  == IF model_number # NA THEN <<"M", "o", "d", "e", "l", ":", " ">> \o model_number ELSE <<>>
        clei_comment   == IF clei_code = <<>> THEN model_comment
                          ELSE IF model_comment # <<>>
                          THEN model_comment \o <<",", " ", "C", "L", "E", "I", ":", " ">> \o clei_code
                          ELSE <<"C", "L", "E", "I", ":", " ">> \o clei_code
        sub_modules    == in_order(getElementsByTagName(doc, module, "chassis-sub-module"))
        disk_modules   == in_order(getElementsByTagName(doc, module, "chassis-re-disk-module"))
        usb_modules    == in_order(getElementsByTagName(doc, module, "chassis-re-usb-module"))
    IN  <<hardware_entry(component_type, name,
                         _get_node_text(doc, module, "part-number", NA),
                         IF serial_number \notin {NA, <<>>} THEN serial_number
                         ELSE _generate_realistic_serial(component_type, node, name),
                         enhanced_description(_get_node_text(doc, module, "description", NA),
                                              model_number),
                         _get_node_text(doc, module, "version", NA),
                         IF clei_comment # <<>> THEN clei_comment
                         ELSE component_type \o <<" ", "c", "o", "m", "p", "o", "n", "e", "n", "t">>)>>
        \o Flatten([k \in 1..Len(sub_modules) |-> sub_module_entries(doc, sub_modules[k], name)])
        \o (IF contains(name, <<"R", "o", "u", "t", "i", "n", "g", " ", "E", "n", "g", "i", "n", "e">>)
            THEN [k \in 1..Len(disk_modules) |-> disk_entry(doc, disk_modules[k], name)]
                 \o [k \in 1..Len(usb_modules) |-> usb_entry(doc, usb_modules[k], name)]
            ELSE <<>>)

\* lines 6082-6106: the entries added when nothing was parsed
fallback_entries(node) ==
    <<hardware_entry(<<"C", "h", "a", "s", "s", "i", "s">>, <<"C", "h", "a", "s", "s", "i", "s">>, <<"U", "n", "k", "n", "o", "w", "n">>,
                     _generate_realistic_serial(<<"C", "h", "a", "s", "s", "i", "s">>, node, <<"C", "h", "a", "s", "s", "i", "s">>),
                     <<"S", "y", "s", "t", "e", "m", " ", "C", "h", "a", "s", "s", "i", "s">>, NA, <<"F", "a", "l", "l", "b", "a", "c", "k", " ", "c", "h", "a", "s", "s", "i", "s", " ", "e", "n", "t", "r", "y", " ", "-", " ", "X", "M", "L", " ", "p", "a", "r", "s", "e", " ", "f", "a", "i", "l", "e", "d">>),
      hardware_entry(<<"M", "i", "d", "p", "l", "a", "n", "e">>, <<"M", "i", "d", "p", "l", "a", "n", "e">>, <<"U", "n", "k", "n", "o", "w", "n">>,
                     _generate_realistic_serial(<<"M", "i", "d", "p", "l", "a", "n", "e">>, node, <<"M", "i", "d", "p", "l", "a", "n", "e">>),
                     <<"S", "y", "s", "t", "e", "m", " ", "M", "i", "d", "p", "l", "a", "n", "e">>, NA, <<"F", "a", "l", "l", "b", "a", "c", "k", " ", "m", "i", "d", "p", "l", "a", "n", "e", " ", "e", "n", "t", "r", "y", " ", "-", " ", "X", "M", "L", " ", "p", "a", "r", "s", "e", " ", "f", "a", "i", "l", "e", "d">>)>>

\* the list _build_hardware_map returns.  An exception of the parser or of
\* a walk over the tree, and one of the debug log of R3.KYA.PE-MOBILE.2,
\* which is written before the first entry is added, leave the list empty.
_build_hardware_map(xml_frag, node) ==
    IF xml_frag = <<>> THEN <<>>
    ELSE LET doc == first_document(xml_frag)
             parse_raises == ~parseString_ok(doc) \/ recursion_error(doc)
             chassis_inventory == document_elements(doc, "chassis-inventory", 1)
             chassis_elements  == in_order(getElementsByTagName(doc, chassis_inventory[1], "chassis"))
             chassis_modules   == in_order(getElementsByTagName(doc, chassis_elements[1],
                                                                "chassis-module"))
             parsed_list ==
                 IF parse_raises \/ (node = R3_KYA_PE_MOBILE_2 /\ get_debug_log_path_raises)
                 THEN <<>>
                 ELSE <<chassis_entry(doc, chassis_elements[1], node)>>
                      \o Flatten([k \in 1..Len(chassis_modules) |->
                                     module_entries(doc, chassis_modules[k], node)])
         IN  IF ~parse_raises /\ (chassis_inventory = <<>> \/ chassis_elements = <<>>) THEN <<>>
             ELSE validate_hardware_data(IF parsed_list = <<>> THEN fallback_entries(node)
                                         ELSE parsed_list, node)

(***************************************************************************)
(* _smart_sfp_inference and the analyses it adds up                        *)
(***************************************************************************)
\* s.lower()
lower(s) ==
    [i \in 1..Len(s) |->
        IF \E n \in 1..Len(UpperChars) : UpperChars[n] = s[i]
        THEN LowerChars[CHOOSE n \in 1..Len(UpperChars) : UpperChars[n] = s[i]]
        ELSE s[i]]

\* re.match(r'([gx]e)-(\d+)/(\d+)/(\d+)', interface): the groups, the
\* numbers through int, and whether it matched
interface_match(interface) ==
    LET fpc_end == run_end(interface, 4, DigitClass)
        pic_end == run_end(interface, fpc_end + 1, DigitClass)
        port_end == run_end(interface, pic_end + 1, DigitClass)
        matched == /\ matches_at(interface, <<"g", "e", "-">>, 1) \/ matches_at(interface, <<"x", "e", "-">>, 1)
                   /\ fpc_end > 4
                   /\ matches_at(interface, <<"/">>, fpc_end) /\ pic_end > fpc_end + 1
                   /\ matches_at(interface, <<"/">>, pic_end) /\ port_end > pic_end + 1
    IN  IF matched
        THEN [matched |-> TRUE, iface_type |-> SubSeq(interface, 1, 2),
              fpc |-> int(SubSeq(interface, 4, fpc_end - 1)),
              pic |-> int(SubSeq(interface, fpc_end + 1, pic_end - 1)),
              port |-> int(SubSeq(interface, pic_end + 1, port_end - 1))]
        ELSE [matched |-> FALSE, iface_type |-> <<>>, fpc |-> 0, pic |-> 0, port |-> 0]

\* what an analysis returns: None is a boost of 0 and no suggestion
Evidence(boost, evidence, sfp) ==
    [confidence_boost |-> boost, evidence |-> evidence, suggested_sfp |-> sfp]

NoEvidence == Evidence(0, <<>>, <<>>)

\* lines 4454-4497 and 4403-4410: the consecutive groups, by node, in the
\* order the code tries them
consecutive_patterns(node, m) ==
    LET in_0_2 == m.iface_type = <<"g", "e">> /\ m.fpc = 0 /\ m.pic = 2
        group(name, lo, hi, confidence, evidence, sfp) ==
            [condition |-> node = name /\ in_0_2 /\ lo <= m.port /\ m.port <= hi,
             confidence |-> confidence, evidence |-> evidence, sfp |-> sfp]
    IN  <<group(<<"R", "4", ".", "N", "S", "K", ".", "P", "E", "-", "M", "O", "B", "I", "L", "E", ".", "2">>, 2, 6, 45,
                "Part of R4.NSK consecutive group 0/2/2-6 (5 ports)", <<"S", "F", "P", "-", "T", " ", "(", "c", "o", "n", "s", "e", "c", "u", "t", "i", "v", "e", " ", "d", "e", "p", "l", "o", "y", "m", "e", "n", "t", ")">>),
          group(<<"R", "3", ".", "K", "Y", "A", ".", "P", "E", "-", "M", "O", "B", "I", "L", "E", ".", "1">>, 10, 19, 50,
                "Part of R3.KYA large consecutive group 0/2/10-19 (10 ports)", <<"S", "F", "P", "-", "T", " ", "(", "l", "a", "r", "g", "e", " ", "d", "e", "p", "l", "o", "y", "m", "e", "n", "t", ")">>),
          group(<<"R", "3", ".", "K", "Y", "A", ".", "P", "E", "-", "M", "O", "B", "I", "L", "E", ".", "2">>, 0, 3, 40,
                "Part of R3.KYA consecutive group 0/2/0-3 (4 ports)", <<"S", "F", "P", "-", "T", " ", "(", "d", "e", "p", "l", "o", "y", "m", "e", "n", "t", " ", "s", "t", "a", "r", "t", ")">>),
          group(<<"R", "3", ".", "K", "Y", "A", ".", "P", "E", "-", "M", "O", "B", "I", "L", "E", ".", "2">>, 8, 11, 40,
                "Part of R3.KYA consecutive group 0/2/8-11 (4 ports)", <<"S", "F", "P", "-", "T", " ", "(", "d", "e", "p", "l", "o", "y", "m", "e", "n", "t", " ", "m", "i", "d", "d", "l", "e", ")">>),
          group(<<"R", "3", ".", "K", "Y", "A", ".", "P", "E", "-", "M", "O", "B", "I", "L", "E", ".", "2">>, 16, 19, 40,
                "Part of R3.KYA consecutive group 0/2/16-19 (4 ports)", <<"S", "F", "P", "-", "T", " ", "(", "d", "e", "p", "l", "o", "y", "m", "e", "n", "t", " ", "e", "n", "d", ")">>)>>

\* lines 4505-4526 and 4416-4423: the high-density ranges
density_patterns(m) ==
    <<[condition |-> m.fpc = 0 /\ m.pic = 3, confidence |-> 35,
       evidence |-> "High-density range 0/3/x (25 total UNUSED ports)",
       sfp |-> <<"S", "F", "P", "-", "T", " ", "(", "h", "i", "g", "h", "-", "d", "e", "n", "s", "i", "t", "y", " ", "d", "e", "p", "l", "o", "y", "m", "e", "n", "t", ")">>],
      [condition |-> m.fpc = 3 /\ m.pic = 0, confidence |-> 35,
       evidence |-> "High-density range 3/0/x (20 total UNUSED ports)",
       sfp |-> <<"S", "F", "P", "-", "T", " ", "(", "s", "t", "a", "n", "d", "a", "r", "d", "i", "z", "e", "d", " ", "d", "e", "p", "l", "o", "y", "m", "e", "n", "t", ")">>],
      [condition |-> m.fpc = 3 /\ m.pic = 1, confidence |-> 35,
       evidence |-> "High-density range 3/1/x (20 total UNUSED ports)",
       sfp |-> <<"S", "F", "P", "-", "T", " ", "(", "s", "t", "a", "n", "d", "a", "r", "d", "i", "z", "e", "d", " ", "d", "e", "p", "l", "o", "y", "m", "e", "n", "t", ")">>]>>

\* for pattern in patterns: if pattern['condition']: ...; break
first_pattern(ps) ==
    LET hits == {n \in 1..Len(ps) : ps[n].condition}
    IN  IF hits = {} THEN NoEvidence
        ELSE LET p == ps[CHOOSE n \in hits : \A k \in hits : n <= k]
             IN  Evidence(p.confidence, <<[text |-> p.evidence, arg |-> <<>>]>>, p.sfp)

_is_fase3_candidate(interface, node) ==
    LET m == interface_match(interface)
    IN  IF ~m.matched THEN FALSE
        ELSE IF m.iface_type = <<"x", "e">> THEN TRUE
        ELSE IF first_pattern(consecutive_patterns(node, m)).confidence_boost > 0 THEN TRUE
        ELSE IF first_pattern(density_patterns(m)).confidence_boost > 0 THEN TRUE
        ELSE IF matches_at(node, <<"R", "3", ".", "K", "Y", "A">>, 1) /\ m.iface_type = <<"g", "e">>
        THEN \/ m.port % 5 = 0
             \/ 0 <= m.port /\ m.port <= 3
             \/ 20 <= m.port /\ m.port <= 23
        ELSE FALSE

_analyze_consecutive_deployment_patterns(interface, node) ==
    LET m == interface_match(interface)
        consecutive == first_pattern(consecutive_patterns(node, m))
    IN  IF ~m.matched THEN NoEvidence
        ELSE IF consecutive.confidence_boost = 0 THEN first_pattern(density_patterns(m))
        ELSE consecutive

\* str(n) of an integer
signed(n) == IF n < 0 THEN <<"-">> \o str(0 - n) ELSE str(n)

\* lines 4275-4335; all_interfaces_data is not read
_analyze_adjacent_ports(interface, neighbors_map) ==
    LET m == interface_match(interface)
        adjacent_port(port) ==
            m.iface_type \o <<"-">> \o signed(m.fpc) \o <<"/">> \o signed(m.pic) \o <<"/">> \o signed(port)
        adjacent_with_neighbors ==
            SelectSeq(<<adjacent_port(m.port - 1), adjacent_port(m.port + 1)>>,
                      LAMBDA adj_port : adj_port \in DOMAIN neighbors_map)
        by_neighbours ==
            IF adjacent_with_neighbors = <<>> THEN NoEvidence
            ELSE Evidence(25, <<[text |-> "Adjacent ports have LLDP: ", arg |-> adjacent_with_neighbors]>>,
                          CASE m.iface_type = <<"g", "e">> -> <<"S", "F", "P", "-", "T", " ", "(", "a", "d", "j", "a", "c", "e", "n", "t", " ", "p", "a", "t", "t", "e", "r", "n", ")">>
                            [] m.iface_type = <<"x", "e">> -> <<"S", "F", "P", "+", " ", "(", "a", "d", "j", "a", "c", "e", "n", "t", " ", "p", "a", "t", "t", "e", "r", "n", ")">>
                            [] m.iface_type = <<"e", "t">> -> <<"Q", "S", "F", "P", "+", " ", "(", "a", "d", "j", "a", "c", "e", "n", "t", " ", "p", "a", "t", "t", "e", "r", "n", ")">>
                            [] OTHER -> <<>>)
        in_group == m.port >= 4 /\ m.port <= 7 /\ m.pic = 2 /\ m.fpc = 0
    IN  IF ~m.matched THEN NoEvidence
        ELSE IF ~in_group THEN by_neighbours
        ELSE Evidence(by_neighbours.confidence_boost + 15,
                      by_neighbours.evidence \o
                          <<[text |-> "Part of consecutive port group 0/2/4-7 - likely uniform SFP deployment",
                             arg |-> <<>>]>>,
                      IF by_neighbours.suggested_sfp = <<>> /\ m.iface_type = <<"g", "e">>
                      THEN <<"S", "F", "P", "-", "T", " ", "(", "g", "r", "o", "u", "p", " ", "p", "a", "t", "t", "e", "r", "n", ")">> ELSE by_neighbours.suggested_sfp)

\* lines 4337-4380
_analyze_port_group_patterns(interface, node) ==
    LET m == interface_match(interface)
        by_node ==
            IF /\ node = <<"R", "3", ".", "K", "Y", "A", ".", "P", "E", "-", "M", "O", "B", "I", "L", "E", ".", "2">>
               /\ m.iface_type = <<"g", "e">> /\ m.fpc = 0 /\ m.pic = 2 /\ 4 <= m.port /\ m.port <= 7
            THEN Evidence(15, <<[text |-> "R3.KYA.PE-MOBILE.2 ge-0/2/x group - typically SFP-T deployment",
                                 arg |-> <<>>]>>, <<"S", "F", "P", "-", "T", " ", "(", "n", "o", "d", "e", " ", "p", "a", "t", "t", "e", "r", "n", ")">>)
            ELSE NoEvidence
    IN  IF ~m.matched THEN NoEvidence
        ELSE IF m.pic # 2 THEN by_node
        ELSE Evidence(by_node.confidence_boost + 10,
                      by_node.evidence \o
                          <<[text |-> "PIC 2 typically used for access - likely SFP-T", arg |-> <<>>]>>,
                      IF by_node.suggested_sfp = <<>> /\ m.iface_type = <<"g", "e">>
                      THEN <<"S", "F", "P", "-", "T", " ", "(", "P", "I", "C", " ", "p", "a", "t", "t", "e", "r", "n", ")">> ELSE by_node.suggested_sfp)

sfp_keywords == <<<<"f", "i", "b", "e", "r">>, <<"s", "f", "p">>, <<"o", "p", "t", "i", "c", "a", "l">>, <<"1", "0", "g">>, <<"1", "g">>, <<"c", "o", "p", "p", "e", "r">>, <<"d", "a", "c">>, <<"a", "o", "c">>>>

UNKNOWN_SFP == <<"U", "n", "k", "n", "o", "w", "n", " ", "S", "F", "P">>

\* confidence_score += boost; evidence.extend(...); the suggestion taken
\* when nothing was inferred yet
add_evidence(st, e) ==
    IF e.confidence_boost = 0 THEN st
    ELSE [confidence_score |-> st.confidence_score + e.confidence_boost,
          evidence |-> st.evidence \o e.evidence,
          inferred_sfp |-> IF st.inferred_sfp = UNKNOWN_SFP /\ e.suggested_sfp # <<>>
                           THEN e.suggested_sfp ELSE st.inferred_sfp]

\* lines 4575-4590: evidence 1, the keywords of the description
description_evidence(interface, descriptions_map) ==
    LET desc == lower(IF interface \in DOMAIN descriptions_map
                      THEN descriptions_map[interface] ELSE <<>>)
        any_in_desc(kws) == \E kw \in kws : contains(desc, kw)
        found_keywords == SelectSeq(sfp_keywords, LAMBDA kw : contains(desc, kw))
    IN  IF desc = <<>> \/ found_keywords = <<>> THEN NoEvidence
        ELSE Evidence(30, <<[text |-> "Description contains: ", arg |-> found_keywords]>>,
                      IF any_in_desc({<<"1", "0", "g">>, <<"1", "0", "g", "i", "g">>, <<"s", "f", "p", "+">>}) THEN <<"S", "F", "P", "+", " ", "(", "f", "r", "o", "m", " ", "d", "e", "s", "c", "r", "i", "p", "t", "i", "o", "n", ")">>
                      ELSE IF any_in_desc({<<"1", "g">>, <<"1", "g", "i", "g">>, <<"c", "o", "p", "p", "e", "r">>}) THEN <<"S", "F", "P", "-", "T", " ", "(", "f", "r", "o", "m", " ", "d", "e", "s", "c", "r", "i", "p", "t", "i", "o", "n", ")">>
                      ELSE IF any_in_desc({<<"f", "i", "b", "e", "r">>, <<"o", "p", "t", "i", "c", "a", "l">>}) THEN <<"S", "F", "P", " ", "(", "f", "r", "o", "m", " ", "d", "e", "s", "c", "r", "i", "p", "t", "i", "o", "n", ")">>
                      ELSE <<>>)

\* the branches of xe- and ge- taken for each other
by_type_swapped(interface, xe, ge, et, other) ==
    IF matches_at(interface, <<"x", "e", "-">>, 1) THEN ge
    ELSE IF matches_at(interface, <<"g", "e", "-">>, 1) THEN xe
    ELSE IF matches_at(interface, <<"e", "t", "-">>, 1) THEN et
    ELSE other

\* if interface.startswith('xe-'): ... elif 'ge-': ... elif 'et-': ...
by_type(interface, xe, ge, et, other) ==
    IF matches_at(interface, <<"x", "e", "-">>, 1) THEN xe
    ELSE IF matches_at(interface, <<"g", "e", "-">>, 1) THEN ge
    ELSE IF matches_at(interface, <<"e", "t", "-">>, 1) THEN et
    ELSE other

\* the two thresholds taken for each other
threshold_swapped(status) == IF status = <<"U", "S", "E", "D">> THEN 40 ELSE 30

\* lines 4648 and 4682: the confidence an interface of this status must reach
threshold(status) == IF status = <<"U", "S", "E", "D">> THEN 30 ELSE 40

\* an evidence line without a list
one(text) == <<[text |-> text, arg |-> <<>>]>>

\* lines 4592-4605: evidence 2, the LLDP neighbour
neighbor_evidence(st, interface, neighbors_map) ==
    IF interface \in DOMAIN neighbors_map
    THEN add_evidence(st,
             Evidence(40, <<[text |-> "LLDP neighbor: ", arg |-> neighbors_map[interface]]>>,
                      by_type(interface, <<"S", "F", "P", "+", " ", "(", "L", "L", "D", "P", " ", "c", "o", "n", "f", "i", "r", "m", "e", "d", ")">>, <<"S", "F", "P", "-", "T", " ", "(", "L", "L", "D", "P", " ", "c", "o", "n", "f", "i", "r", "m", "e", "d", ")">>,
                              <<"Q", "S", "F", "P", "+", " ", "(", "L", "L", "D", "P", " ", "c", "o", "n", "f", "i", "r", "m", "e", "d", ")">>, <<>>)))
    ELSE st

\* lines 4607-4614: the adjacent ports, looked at when all_interfaces_data
\* was given and the confidence is below 40
adjacent_evidence(st, interface, neighbors_map, all_interfaces_data) ==
    IF all_interfaces_data /\ st.confidence_score < 40
    THEN add_evidence(st, _analyze_adjacent_ports(interface, neighbors_map))
    ELSE st

\* lines 4571-4614: what is gathered for an interface of either status
gathered_evidence(interface, descriptions_map, neighbors_map, all_interfaces_data) ==
    adjacent_evidence(
        neighbor_evidence(
            add_evidence([confidence_score |-> 0, inferred_sfp |-> UNKNOWN_SFP, evidence |-> <<>>],
                         description_evidence(interface, descriptions_map)),
            interface, neighbors_map),
        interface, neighbors_map, all_interfaces_data)

\* lines 4639-4646: the port groups, looked at when the confidence is below 40
port_group_evidence(st, interface, node) ==
    IF st.confidence_score < 40
    THEN add_evidence(st, _analyze_port_group_patterns(interface, node))
    ELSE st

\* lines 4617-4646: evidence 3 and 4 of an interface that is USED
used_evidence(st, interface, node) ==
    port_group_evidence(
        add_evidence(
            add_evidence(st,
                by_type(interface,
                    Evidence(15, one("10G interface in USED state - likely has SFP+"),
                             <<"S", "F", "P", "+", " ", "(", "t", "y", "p", "e", " ", "i", "n", "f", "e", "r", "e", "n", "c", "e", ")">>),
                    Evidence(15, one("1G interface in USED state - likely has SFP-T"),
                             <<"S", "F", "P", "-", "T", " ", "(", "t", "y", "p", "e", " ", "i", "n", "f", "e", "r", "e", "n", "c", "e", ")">>),
                    Evidence(15, one("100G interface in USED state - likely has SFP+"),
                             <<"Q", "S", "F", "P", "+", " ", "(", "t", "y", "p", "e", " ", "i", "n", "f", "e", "r", "e", "n", "c", "e", ")">>),
                    NoEvidence)),
            Evidence(20, one("Interface marked as USED - configuration suggests physical SFP"),
                     <<>>)),
        interface, node)

\* lines 4650-4680: evidence 3 and 4 of an interface that is UNUSED
unused_evidence(st, interface, node) ==
    add_evidence(
        add_evidence(
            add_evidence(st,
                by_type(interface,
                    Evidence(25, one("xe- interface - high-speed deployment likely has SFP+"),
                             <<"S", "F", "P", "+", " ", "(", "h", "i", "g", "h", "-", "s", "p", "e", "e", "d", " ", "i", "n", "f", "e", "r", "e", "n", "c", "e", ")">>),
                    Evidence(10, one("ge- interface - standard deployment"),
                             <<"S", "F", "P", "-", "T", " ", "(", "s", "t", "a", "n", "d", "a", "r", "d", " ", "i", "n", "f", "e", "r", "e", "n", "c", "e", ")">>),
                    Evidence(20, one("et- interface - ultra-high-speed deployment likely has QSFP+"),
                             <<"Q", "S", "F", "P", "+", " ", "(", "u", "l", "t", "r", "a", "-", "h", "i", "g", "h", "-", "s", "p", "e", "e", "d", " ", "i", "n", "f", "e", "r", "e", "n", "c", "e", ")">>),
                    NoEvidence)),
            _analyze_consecutive_deployment_patterns(interface, node)),
        Evidence(15, one("UNUSED interface in targeted deployment pattern - infrastructure suggests SFP presence"),
                 <<>>))

\* lines 4684-4690
inference_method(final, status) ==
    IF status = <<"U", "N", "U", "S", "E", "D">> THEN "SMART_INFERENCE_FASE3"
    ELSE IF final.confidence_score < 50 THEN "SMART_INFERENCE_FASE2"
    ELSE "SMART_INFERENCE_FASE1"

\* lines 4683-4701: the result when the confidence reaches the threshold
inference_result(final, status) ==
    IF final.confidence_score >= threshold(status)
    THEN [kind |-> "result", sfp_status |-> final.inferred_sfp,
          confidence |-> final.confidence_score, evidence |-> final.evidence,
          method |-> inference_method(final, status),
          log |-> <<[method |-> inference_method(final, status),
                     confidence |-> final.confidence_score]>>]
    ELSE [kind |-> "None",
          log |-> <<[method |-> "SMART_INFERENCE", confidence |-> final.confidence_score,
                     threshold |-> threshold(status)]>>]

\* lines 4553-4706; log is what the call appends to sfp_debug.log
_smart_sfp_inference(interface, status, descriptions_map, neighbors_map, node, all_interfaces_data) ==
    IF status \notin {<<"U", "S", "E", "D">>, <<"U", "N", "U", "S", "E", "D">>} THEN [kind |-> "None", log |-> <<>>]
    ELSE IF status = <<"U", "N", "U", "S", "E", "D">> /\ ~_is_fase3_candidate(interface, node)
    THEN [kind |-> "None", log |-> <<>>]
    ELSE IF get_debug_log_path_raises THEN [kind |-> "TypeError", log |-> <<>>]
    ELSE IF status = <<"U", "S", "E", "D">>
    THEN inference_result(
             used_evidence(gathered_evidence(interface, descriptions_map, neighbors_map,
                                             all_interfaces_data),
                           interface, node),
             status)
    ELSE inference_result(
             unused_evidence(gathered_evidence(interface, descriptions_map, neighbors_map,
                                               all_interfaces_data),
                             interface, node),
             status)

\* lines 7325-7341: the status that goes into the row, from what the
\* inference returned and the status the lookups left
enhanced_sfp_status(inference, sfp_present_util) ==
    IF inference.kind = "result" /\ inference.confidence >= 30
    THEN inference.sfp_status ELSE sfp_present_util

row_of(inference, sfp_present_util, is_ae) ==
    IF get_debug_log_path_raises \/ inference.kind = "TypeError"
    THEN [kind |-> "TypeError", smart_inference |-> inference, sfp_status |-> <<>>]
    ELSE [kind |-> "row", smart_inference |-> inference,
          sfp_status |-> IF enhanced_sfp_status(inference, sfp_present_util) \in {<<>>, <<"U", "n", "k", "n", "o", "w", "n">>}
                         THEN IF is_ae THEN <<"L", "o", "g", "i", "c", "a", "l", " ", "B", "u", "n", "d", "l", "e">> ELSE <<"N", "o", " ", "S", "F", "P">>
                         ELSE enhanced_sfp_status(inference, sfp_present_util)]

\* the row left with the status the lookups found, without the default of
\* lines 7336-7341
final_sfp_status_without_default(iface, status, descriptions_map, neighbors_map, node) ==
    LET inference == IF status = <<"U", "S", "E", "D">> /\ ~matches_at(iface, <<"a", "e">>, 1)
                     THEN _smart_sfp_inference(iface, status, descriptions_map, neighbors_map,
                                               node, FALSE)
                     ELSE [kind |-> "not called", log |-> <<>>]
    IN  [kind |-> "row", smart_inference |-> inference,
         sfp_status |-> IF inference.kind = "result" THEN inference.sfp_status ELSE <<>>]

\* lines 7290-7341 of capture_data, for an interface that has no entry in
\* the optics map and none in the transceiver map, so that sfp_present_util
\* is still '' at line 7290: the inference that was run, if any, and the
\* status that goes into the row
final_sfp_status(iface, status, descriptions_map, neighbors_map, node) ==
    LET dash == Find(iface, "-", 1)
        interface_prefix == IF dash > 0 THEN SubSeq(iface, 1, dash - 1)
                            ELSE SubSeq(iface, 1, IF Len(iface) < 2 THEN Len(iface) ELSE 2)
        is_ae == interface_prefix = <<"a", "e">>
        sfp_present_util == IF is_ae THEN <<"L", "o", "g", "i", "c", "a", "l", " ", "B", "u", "n", "d", "l", "e">> ELSE <<>>
        inferred == sfp_present_util \in {<<>>, <<"U", "n", "k", "n", "o", "w", "n">>} /\ status = <<"U", "S", "E", "D">>
    IN  row_of(IF inferred
               THEN _smart_sfp_inference(iface, status, descriptions_map, neighbors_map,
                                         node, FALSE)
               ELSE [kind |-> "not called", log |-> <<>>],
               sfp_present_util, is_ae)

(***************************************************************************)
(* Inputs.                                                                 *)
(***************************************************************************)
RECURSIVE SeqsUpTo(_, _)
SeqsUpTo(S, n) ==
    IF n = 0 THEN {<<>>}
    ELSE LET shorter == SeqsUpTo(S, n - 1)
         IN  shorter \cup {Append(s, t) : s \in {x \in shorter : Len(x) = n - 1}, t \in S}

Fragments ==
    SeqsUpTo({OPEN_CM, CLOSE_CM, Close("chassis-inventory"), Close("chassis"),
              Close("inventory"), Close("fpc-information"), CLOSE_RPC, TEXT}, MaxFragLen)
    \ {<<>>}

\* well-formed rpc-reply blocks
WellFormedBlocks ==
    {<<RPC_OPEN>> \o c \o <<CLOSE_RPC>> : c \in {<<>>, <<TEXT>>, <<OPEN_CM, TEXT, CLOSE_CM>>}}

\* n gaps that hold at most budget tokens between them, of the text a
\* terminal capture may hold around the blocks
RECURSIVE GapsFor(_, _)
GapsFor(n, budget) ==
    IF n = 0 THEN {<<>>}
    ELSE UNION {{<<g>> \o rest : g \in {x \in SeqsUpTo({TEXT, ANSI, RPC_OPEN, CLOSE_RPC}, k) : Len(x) = k},
                                   rest \in GapsFor(n - 1, budget - k)} :
                   k \in 0..budget}

\* gaps[1] blocks[1] gaps[2] ... blocks[n] gaps[n+1]
Captures(n) ==
    {[gaps |-> g, blocks |-> bl] :
        g \in GapsFor(n + 1, MaxGapTokens), bl \in [1..n -> WellFormedBlocks]}

RECURSIVE capture_text(_, _)
capture_text(c, i) ==
    IF i > Len(c.blocks) THEN c.gaps[i]
    ELSE c.gaps[i] \o c.blocks[i] \o capture_text(c, i + 1)

\* the beginning of a reply that was cut off: the inventory holds modules,
\* a module holds sub-modules, and every closing tag closes the element that
\* was opened last
RECURSIVE IsCutOffReply(_, _)
IsCutOffReply(x, stack) ==
    IF x = <<>> THEN TRUE
    ELSE LET t == Head(x)
         IN  IF t.k = "text" THEN IsCutOffReply(Tail(x), stack)
             ELSE IF t.k = "close"
             THEN stack # <<>> /\ Top(stack) = t.n /\ IsCutOffReply(Tail(x), Pop(stack))
             ELSE /\ t.n = "chassis-inventory" => stack = <<>>
                  /\ t.n = "chassis-module" => (stack = <<>> \/ Top(stack) = "chassis-inventory")
                  /\ t.n = "chassis-sub-module" => (stack # <<>> /\ Top(stack) = "chassis-module")
                  /\ IsCutOffReply(Tail(x), Append(stack, t.n))

CutOffReplies ==
    {x \in SeqsUpTo({Open("chassis-inventory"), Close("chassis-inventory"), OPEN_CM, CLOSE_CM,
                     Open("chassis-sub-module"), Close("chassis-sub-module"), TEXT}, MaxFragLen) :
        IsCutOffReply(x, <<>>)}

\* a reply that was cut off, with the next reply written into it
NestedLogs ==
    {<<RPC_OPEN>> \o x \o blk : x \in CutOffReplies, blk \in WellFormedBlocks}

\* the tags and text of captures without a complete rpc-reply block
LogTokens ==
    {Open("chassis"), Close("chassis"), Open("configuration"), Close("configuration"),
     Open("inventory"), Close("inventory"), XML_DECL,
     Open("fpc-information"), Close("fpc-information"), Open("fpc"), Close("fpc"), TEXT}

\* documents <chassis> item* </chassis>; an item is a leaf or a module, a
\* module holds leaves, a leaf is <n>text</n> or an empty element <n/>
Leaves ==
    {<<Open(n), TEXT, Close(n)>> : n \in {"model", "name"}} \cup {<<Empty("description")>>}

\* the items a <chassis> may hold: a leaf, or a module of at most budget
\* leaves; cost is the number of leaves (1 for a module without any)
Items(budget) ==
    {[text |-> l, cost |-> 1] : l \in Leaves}
    \cup {[text |-> <<Open(m)>> \o Flatten(ls) \o <<Close(m)>>,
           cost |-> IF Len(ls) = 0 THEN 1 ELSE Len(ls)] :
             m \in {"chassis-module", "chassis-re-disk-module"}, ls \in SeqsUpTo(Leaves, budget)}

\* at most n items that hold at most budget leaves between them
RECURSIVE Forests(_, _)
Forests(n, budget) ==
    IF n = 0 \/ budget = 0 THEN {<<>>}
    ELSE {<<>>} \cup UNION {{it.text \o rest : it \in {x \in Items(budget) : x.cost = k},
                                                rest \in Forests(n - 1, budget - k)} :
                              k \in 1..budget}

IntactDocuments ==
    {<<Open("chassis")>> \o f \o <<Close("chassis")>> : f \in Forests(MaxItems, MaxLeaves)}

\* the closing tags of a simple element that stand directly before the
\* closing tag of the parent
LosablePositions(x) ==
    {i \in 1..(Len(x) - 1) :
        x[i].k = "close" /\ x[i].n \in generic_elements /\ x[i + 1].k = "close"}

RemoveAt(x, i) == SubSeq(x, 1, i - 1) \o SubSeq(x, i + 1, Len(x))

\* a chassis-module named "FPC slot", as the device sent it or damaged on the
\* way: its closing tag lost, a child left open, or a child nested too deep
FpcName(slot) == <<Open("name"), Text("FPC ", <<slot>>), Close("name")>>

ModuleText(slot, kind) ==
    <<OPEN_CM>> \o FpcName(slot)
    \o (CASE kind = "ok"       -> <<CLOSE_CM>>
          [] kind = "unclosed" -> <<>>
          [] kind = "corrupt"  -> <<Open("bad"), CLOSE_CM>>
          [] kind = "deep"     -> <<DEEP, CLOSE_CM>>)

\* an rpc-reply document: its chassis-modules, with or without the
\* chassis-inventory / chassis containers around them
ReplyDocs ==
    UNION {[wrapped : BOOLEAN, kinds : [1..n -> {"ok", "unclosed", "corrupt", "deep"}]] : n \in 0..MaxModules}

RECURSIVE ModulesText(_, _, _)
ModulesText(kinds, i, first_slot) ==
    IF i > Len(kinds) THEN <<>>
    ELSE ModuleText(first_slot + i - 1, kinds[i]) \o ModulesText(kinds, i + 1, first_slot)

\* the slots of the documents are disjoint: document j uses the slots from
\* (j - 1) * MaxModules + 1 on
ReplyText(rd, j) ==
    LET mods == ModulesText(rd.kinds, 1, (j - 1) * MaxModules + 1)
    IN  IF rd.wrapped
        THEN <<RPC_OPEN, Open("chassis-inventory"), Open("chassis")>> \o mods \o <<Close("chassis"), Close("chassis-inventory"), CLOSE_RPC>>
        ELSE <<RPC_OPEN>> \o mods \o <<CLOSE_RPC>>

RECURSIVE RepliesText(_, _)
RepliesText(rds, j) ==
    IF j > Len(rds) THEN <<>> ELSE ReplyText(rds[j], j) \o RepliesText(rds, j + 1)

RECURSIVE ModulesSent(_, _)
ModulesSent(rds, j) ==
    IF j > Len(rds) THEN 0 ELSE Len(rds[j].kinds) + ModulesSent(rds, j + 1)

\* one document, or two concatenated, of at most MaxModules modules in all
SentDocs ==
    {rds \in [1..1 -> ReplyDocs] \cup [1..2 -> ReplyDocs] : ModulesSent(rds, 1) <= MaxModules}

\* what the chassis commands report: <fpc> elements with a slot and perhaps
\* a description, and chassis-module elements with a name and perhaps a
\* model number and a description; an absent leaf is the empty list
Optional(S) == {<<>>} \cup {<<x>> : x \in S}

ChassisItems ==
    [tag : {"fpc"}, name : {<<"3">>, <<"7">>}, model : {<<>>},
     description : Optional({<<"M", "P", "C", " ", "R", "E", "V", " ", "0", "5">>})]
    \cup
    [tag : {"chassis-module"}, name : {<<"F", "P", "C", " ", "3">>, <<"F", "P", "C", " ", "0", "3">>},
     model : Optional({<<"M", "P", "C", "7", "E", "-", "M", "R", "A", "T", "E">>, <<"S", "C", "B", "E", "2">>, <<"N", "/", "A">>, <<"U", "n", "k", "n", "o", "w", "n">>}),
     description : Optional({<<"M", "P", "C", " ", "3", "D", " ", "1", "2", "x", "Q", "S", "F", "P">>})]

LeafText(tag, opt) ==
    IF opt = <<>> THEN <<>> ELSE <<Open(tag), Chars(opt[1]), Close(tag)>>

ItemText(it) ==
    IF it.tag = "fpc"
    THEN <<Open("fpc")>> \o LeafText("slot", <<it.name>>)
         \o LeafText("description", it.description) \o <<Close("fpc")>>
    ELSE <<OPEN_CM>> \o LeafText("name", <<it.name>>) \o LeafText("model-number", it.model)
         \o LeafText("description", it.description) \o <<CLOSE_CM>>

ChassisText(items) ==
    <<RPC_OPEN>> \o Flatten([i \in 1..Len(items) |-> ItemText(items[i])]) \o <<CLOSE_RPC>>

\* the components validate_hardware_data is given
Components ==
    [component_type : {<<"C", "h", "a", "s", "s", "i", "s">>}, slot_position : {<<"C", "h", "a", "s", "s", "i", "s">>},
     serial_number : {<<"J", "N", "1", "2", "3", "0", "E", "B", "8", "A", "F", "A">>, <<"C", "A", "K", "D", "0", "7", "7", "6">>, <<"N", "/", "A">>},
     part_number : {<<"7", "5", "0", "-", "0", "5", "6", "5", "1", "9">>, <<"N", "/", "A">>},
     model_description : {<<"M", "X", "9", "6", "0">>, <<"T", "E", "S", "T", "1", "N", "W">>},
     comments : {<<"M", "a", "i", "n", " ", "c", "h", "a", "s", "s", "i", "s", " ", "e", "n", "c", "l", "o", "s", "u", "r", "e">>, <<"L", "a", "t", "e", "s", "t">>}, is_actual : BOOLEAN]
    \cup
    [component_type : {<<"F", "P", "C">>}, slot_position : {<<"F", "P", "C", " ", "7">>, <<"F", "P", "C", " ", "1">>},
     serial_number : {<<"J", "N", "1", "2", "3", "0", "E", "B", "8", "A", "F", "A">>, <<"C", "A", "K", "D", "0", "7", "7", "6">>, <<"N", "/", "A">>},
     part_number : {<<"7", "5", "0", "-", "0", "5", "6", "5", "1", "9">>, <<"N", "/", "A">>},
     model_description : {<<"M", "X", "9", "6", "0">>, <<"T", "E", "S", "T", "1", "N", "W">>},
     comments : {<<>>, <<"L", "a", "t", "e", "s", "t">>}, is_actual : {FALSE}]
    \cup
    [component_type : {<<"C", "P", "U">>}, slot_position : {<<"F", "P", "C", " ", "7">>, <<"F", "P", "C", " ", "1">>},
     serial_number : {<<"J", "N", "1", "2", "3", "0", "E", "B", "8", "A", "F", "A">>, <<"N", "/", "A">>}, part_number : {<<"N", "/", "A">>},
     model_description : {<<"M", "X", "9", "6", "0">>, <<"T", "E", "S", "T", "1", "N", "W">>},
     comments : {<<>>}, is_actual : {FALSE}]
    \cup
    [component_type : {<<"F", "P", "M">>}, slot_position : {<<"F", "P", "M", " ", "B", "o", "a", "r", "d">>},
     serial_number : {<<"J", "N", "1", "2", "3", "0", "E", "B", "8", "A", "F", "A">>, <<"C", "A", "K", "D", "0", "7", "7", "6">>},
     part_number : {<<"7", "5", "0", "-", "0", "5", "6", "5", "1", "9">>, <<"N", "/", "A">>},
     model_description : {<<"M", "X", "9", "6", "0">>, <<"T", "E", "S", "T", "1", "N", "W">>},
     comments : {<<>>, <<"T", "E", "S", "T", " ", "u", "n", "i", "t">>}, is_actual : {FALSE}]
    \cup
    [component_type : {<<"M", "I", "C">>}, slot_position : {<<"F", "P", "C", " ", "1">>},
     serial_number : {<<"J", "N", "1", "2", "3", "0", "E", "B", "8", "A", "F", "A">>, <<"C", "A", "K", "D", "0", "7", "7", "6">>}, part_number : {<<"N", "/", "A">>},
     model_description : {<<"M", "X", "9", "6", "0">>, <<"T", "E", "S", "T", "1", "N", "W">>},
     comments : {<<>>, <<"T", "E", "S", "T", "1", "N", "W", " ", "c", "a", "r", "d">>}, is_actual : {FALSE}]

\* what show chassis hardware reports below an FPC: a CPU, a PIC of its own
\* (built in, or a card), or a MIC with its PIC, with their transceivers
HardwareSubModules ==
    LET xcvr == [name |-> <<"X", "c", "v", "r", " ", "0">>, part |-> <<>>, xcvr |-> FALSE]
        pic(part, with_xcvr) == [name |-> <<"P", "I", "C", " ", "1">>, part |-> <<part>>, xcvr |-> with_xcvr]
    IN  {[name |-> <<"C", "P", "U">>, part |-> <<>>, below |-> <<>>],
         [name |-> <<"P", "I", "C", " ", "0">>, part |-> <<BUILTIN>>, below |-> <<xcvr>>],
         [name |-> <<"P", "I", "C", " ", "0">>, part |-> <<<<"7", "5", "0", "-", "0", "2", "8", "3", "9", "2">>>>, below |-> <<>>],
         [name |-> <<"M", "I", "C", " ", "0">>, part |-> <<<<"7", "5", "0", "-", "0", "2", "8", "3", "8", "7">>>>, below |-> <<pic(BUILTIN, TRUE)>>],
         [name |-> <<"M", "I", "C", " ", "0">>, part |-> <<<<"7", "5", "0", "-", "0", "2", "8", "3", "8", "7">>>>, below |-> <<pic(<<"7", "5", "0", "-", "0", "2", "8", "3", "9", "2">>, TRUE)>>],
         [name |-> <<"M", "I", "C", " ", "0">>, part |-> <<>>, below |-> <<pic(BUILTIN, FALSE)>>]}

SubSubModuleText(m) ==
    <<Open("chassis-sub-sub-module")>> \o LeafText("name", <<m.name>>)
    \o LeafText("part-number", m.part)
    \o (IF m.xcvr
        THEN <<Open("chassis-sub-sub-sub-module")>> \o LeafText("name", <<<<"X", "c", "v", "r", " ", "0">>>>)
             \o <<Close("chassis-sub-sub-sub-module")>>
        ELSE <<>>)
    \o <<Close("chassis-sub-sub-module")>>

SubModuleText(m) ==
    <<Open("chassis-sub-module")>> \o LeafText("name", <<m.name>>)
    \o LeafText("part-number", m.part)
    \o Flatten([k \in 1..Len(m.below) |-> SubSubModuleText(m.below[k])])
    \o <<Close("chassis-sub-module")>>

\* a Routing Engine with its disk, and perhaps its USB device
RoutingEngineText(usb) ==
    <<OPEN_CM>> \o LeafText("name", <<<<"R", "o", "u", "t", "i", "n", "g", " ", "E", "n", "g", "i", "n", "e", " ", "0">>>>)
    \o LeafText("model-number", <<<<"R", "E", "-", "S", "-", "1", "8", "0", "0", "X", "4">>>>)
    \o <<Open("chassis-re-disk-module")>> \o LeafText("name", <<<<"a", "d", "0">>>>)
    \o LeafText("disk-size", <<<<"3", "8", "3", "1">>>>) \o LeafText("model", <<<<"U", "G", "B", "3", "0", "S", "F", "A", "4", "0", "0", "0", "T", "1", " ">>>>)
    \o <<Close("chassis-re-disk-module")>>
    \o (IF usb
        THEN <<Open("chassis-re-usb-module")>> \o LeafText("name", <<<<"u", "s", "b", "0", " ", "(", "a", "d", "d", "r", " ", "1", ")">>>>)
             \o LeafText("product", <<<<"E", "H", "C", "I", " ", "r", "o", "o", "t", " ", "h", "u", "b", " ", "0">>>>) \o LeafText("vendor", <<<<"I", "n", "t", "e", "l">>>>)
             \o <<Close("chassis-re-usb-module")>>
        ELSE <<>>)
    \o <<CLOSE_CM>>

\* the reply to show chassis hardware: the chassis and FPC 0 with its
\* sub-modules; the reply of a chassis with a Routing Engine, with or without
\* a USB device, or a reply cut off before </rpc-reply>
HardwareText(h) ==
    <<RPC_OPEN, Open("chassis-inventory"), Open("chassis")>>
    \o LeafText("name", <<<<"C", "h", "a", "s", "s", "i", "s">>>>) \o LeafText("serial-number", h.serial)
    \o (IF h.shape \in {"re", "re usb"} THEN RoutingEngineText(h.shape = "re usb") ELSE <<>>)
    \o <<OPEN_CM>> \o LeafText("name", <<<<"F", "P", "C", " ", "0">>>>) \o LeafText("serial-number", <<<<"C", "A", "D", "J", "3", "8", "7", "1">>>>)
    \o LeafText("description", <<<<"M", "P", "C", " ", "T", "y", "p", "e", " ", "2", " ", "3", "D">>>>)
    \o Flatten([k \in 1..Len(h.subs) |-> SubModuleText(h.subs[k])])
    \o <<CLOSE_CM, Close("chassis"), Close("chassis-inventory")>>
    \o (IF h.shape # "cut off" THEN <<CLOSE_RPC>> ELSE <<>>)

\* an interface of a node with the descriptions and the LLDP neighbours the
\* node reported
InterfaceData ==
    LET Interfaces == {<<"x", "e", "-", "0", "/", "0", "/", "0">>, <<"g", "e", "-", "0", "/", "2", "/", "2">>, <<"g", "e", "-", "0", "/", "2", "/", "5">>, <<"g", "e", "-", "0", "/", "2", "/", "1", "0">>, <<"g", "e", "-", "0", "/", "3", "/", "1">>,
                       <<"g", "e", "-", "1", "/", "1", "/", "7">>, <<"g", "e", "-", "1", "/", "1", "/", "0">>, <<"e", "t", "-", "0", "/", "0", "/", "1">>, <<"a", "e", "0">>, <<"l", "o", "0">>}
        NeighborNames == {<<"x", "e", "-", "0", "/", "0", "/", "0">>, <<"x", "e", "-", "0", "/", "0", "/", "1">>, <<"g", "e", "-", "0", "/", "2", "/", "5">>, <<"g", "e", "-", "0", "/", "2", "/", "4">>, <<"g", "e", "-", "1", "/", "1", "/", "7">>, <<"e", "t", "-", "0", "/", "0", "/", "1">>}
    IN  {[interface |-> i,
          descriptions_map |-> [k \in {i : n \in 1..Len(desc)} |-> desc[1]],
          neighbors_map |-> [n \in ns |-> <<"R", "1">>], node |-> nd] :
            i \in Interfaces,
            desc \in Optional({<<"F", "i", "b", "e", "r">>, <<"1", "0", "G">>, <<"c", "o", "p", "p", "e", "r">>, <<"1", "0", "G", " ", "c", "o", "p", "p", "e", "r">>, <<"u", "p", "l", "i", "n", "k">>}),
            ns \in {s \in SUBSET NeighborNames : Cardinality(s) <= MaxNeighbors},
            nd \in {<<"X">>, <<"R", "3", ".", "K", "Y", "A", ".", "P", "E", "-", "M", "O", "B", "I", "L", "E", ".", "2">>, <<"R", "3", ".", "K", "Y", "A", ".", "P", "E", "-", "M", "O", "B", "I", "L", "E", ".", "1">>, <<"R", "4", ".", "N", "S", "K", ".", "P", "E", "-", "M", "O", "B", "I", "L", "E", ".", "2">>}}

(***************************************************************************)
(* The program.                                                            *)
(***************************************************************************)
Init ==
    /\ pc = "main"
    /\ folder_daily_global = None
    /\ debug_folder_global = None
    /\ xml_fragment = <<>>
    /\ repaired_xml = <<>>
    /\ repaired_again = <<>>
    /\ raw_capture = [gaps |-> <<>>, blocks |-> <<>>]
    /\ buff = <<>>
    /\ extracted = <<>>
    /\ re_extracted = <<>>
    /\ intact_xml = <<>>
    /\ xml_content = <<>>
    /\ repaired_content = <<>>
    /\ sent_docs = <<>>
    /\ fragment = <<>>
    /\ tag_hint = None
    /\ parsed = [kind |-> "None", doc |-> <<>>]
    /\ chassis_items = <<>>
    /\ chassis_fragment = <<>>
    /\ chassis_maps = [kind |-> "maps", module_map |-> EmptyDict]
    /\ hardware_list = <<>>
    /\ node_name = <<>>
    /\ cleaned_list = <<>>
    /\ revalidated_list = <<>>
    /\ iface_name = <<>>
    /\ iface_status = <<>>
    /\ descriptions = EmptyDict
    /\ neighbors = EmptyDict
    /\ iface_node = <<>>
    /\ interfaces_data = FALSE
    /\ smart_inference = [kind |-> "not called", log |-> <<>>]
    /\ sfp_report = [kind |-> "None"]
    /\ hardware_fragment = <<>>
    /\ hardware_node = <<>>
    /\ hardware_map = <<>>
    /\ capture_node = <<>>
    /\ attempt = 0
    /\ timeouts_tried = <<>>
    /\ ssh_client = None
    /\ channel = None
    /\ commands_sent = <<>>
    /\ alarm_list = <<>>
    /\ parsed_hardware = <<>>
    /\ iface_doc = [kind |-> "None", doc |-> <<>>]
    /\ phy_index = 0
    /\ debug_fpc_lookup = "unbound"
    /\ node_rows = <<>>
    /\ node_util = <<>>
    /\ capture_outcome = [kind |-> "not called"]
    /\ main_nodes = <<>>
    /\ futures = <<>>
    /\ handled = {}
    /\ last_handled = 0
    /\ executing = {}
    /\ results = <<>>
    /\ util_results = <<>>
    /\ alarm_results = <<>>
    /\ hardware_results = <<>>
    /\ failed_nodes = <<>>
    /\ retry_index = 0
    /\ retry_data = [kind |-> "none"]
    /\ retried = <<>>
    /\ xcvr_map = <<>>
    /\ recorded = <<>>
    /\ lookup_args = <<>>
    /\ lookup_label = <<>>

\* main() sets the globals before anything else runs
main ==
    /\ pc = "main"
    /\ pc' = "ready"
    /\ folder_daily_global' = "Capture_FPC-Occupancy"
    /\ debug_folder_global' = "All Debug"
    /\ UNCHANGED <<repairVars, extractVars, mismatchVars, parseVars, mapsVars, validateVars, sfpVars, hardwareVars, captureVars, poolVars, xcvrVars>>

RepairChassisModule ==
    /\ pc = "ready"
    /\ \E f \in Fragments :
          /\ xml_fragment' = f
          /\ repaired_xml' = _repair_chassis_module_xml(f)
    /\ pc' = "repaired"
    /\ UNCHANGED <<globalVars, repaired_again, extractVars, mismatchVars, parseVars, mapsVars, validateVars, sfpVars, hardwareVars, captureVars, poolVars, xcvrVars>>

RepairChassisModuleAgain ==
    /\ pc = "repaired"
    /\ repaired_again' = _repair_chassis_module_xml(repaired_xml)
    /\ pc' = "repaired_again"
    /\ UNCHANGED <<globalVars, xml_fragment, repaired_xml, extractVars, mismatchVars, parseVars, mapsVars, validateVars, sfpVars, hardwareVars, captureVars, poolVars, xcvrVars>>

ExtractXmlFragment ==
    /\ pc = "ready"
    /\ \E n \in 1..MaxBlocks : \E c \in Captures(n) :
          /\ raw_capture' = c
          /\ buff' = capture_text(c, 1)
          /\ extracted' = _extract_xml_fragment(capture_text(c, 1))
    /\ pc' = "extracted"
    /\ UNCHANGED <<globalVars, repairVars, re_extracted, mismatchVars, parseVars, mapsVars, validateVars, sfpVars, hardwareVars, captureVars, poolVars, xcvrVars>>

ExtractXmlFragmentAgain ==
    /\ pc = "extracted"
    /\ re_extracted' = _extract_xml_fragment(extracted)
    /\ pc' = "re_extracted"
    /\ UNCHANGED <<globalVars, repairVars, raw_capture, buff, extracted, mismatchVars, parseVars, mapsVars, validateVars, sfpVars, hardwareVars, captureVars, poolVars, xcvrVars>>

ExtractXmlFragmentOfLog ==
    /\ pc = "ready"
    /\ \/ \E log \in NestedLogs :
             buff' = log /\ extracted' = _extract_xml_fragment(log)
       \/ \E n \in 0..MaxLogTokens : \E log \in [1..n -> LogTokens] :
             buff' = log /\ extracted' = _extract_xml_fragment(log)
    /\ pc' = "log_extracted"
    /\ UNCHANGED <<globalVars, repairVars, raw_capture, re_extracted, mismatchVars, parseVars, mapsVars, validateVars, sfpVars, hardwareVars, captureVars, poolVars, xcvrVars>>

NextExtract == main \/ ExtractXmlFragment \/ ExtractXmlFragmentAgain

SpecExtract == Init /\ [][NextExtract]_vars

NextLog == main \/ ExtractXmlFragmentOfLog

SpecLog == Init /\ [][NextLog]_vars

RepairXmlTagMismatches ==
    /\ pc = "ready"
    /\ \E x \in IntactDocuments : \E i \in LosablePositions(x) :
          /\ intact_xml' = x
          /\ xml_content' = RemoveAt(x, i)
          /\ repaired_content' = _repair_xml_tag_mismatches(RemoveAt(x, i))
    /\ pc' = "mismatches_repaired"
    /\ UNCHANGED <<globalVars, repairVars, extractVars, parseVars, mapsVars, validateVars, sfpVars, hardwareVars, captureVars, poolVars, xcvrVars>>

NextMismatch == main \/ RepairXmlTagMismatches

SpecMismatch == Init /\ [][NextMismatch]_vars

ParseFragmentsToDom ==
    /\ pc = "ready"
    /\ \E rds \in SentDocs, hint \in {None, "fpc", "interfaces", "configuration"} :
          /\ sent_docs' = rds
          /\ fragment' = RepliesText(rds, 1)
          /\ tag_hint' = hint
          /\ parsed' = _parse_fragments_to_dom(RepliesText(rds, 1), hint)
    /\ pc' = "parsed"
    /\ UNCHANGED <<globalVars, repairVars, extractVars, mismatchVars, mapsVars, validateVars, sfpVars, hardwareVars, captureVars, poolVars, xcvrVars>>

\* the tags of a reply that is cut off, or that another reply follows
SalvageTokens == {Open("fpc"), Close("fpc"), Open("chassis"), Close("chassis"), OPEN_CM, CLOSE_CM}

\* _parse_fragments_to_dom on a fragment that is not a well-formed document,
\* with the tag_hint of _build_chassis_maps (line 3721) or without one
SalvageFragment ==
    /\ pc = "ready"
    /\ \E n \in 1..MaxSalvageLen : \E f \in [1..n -> SalvageTokens] : \E hint \in {None, "fpc"} :
          /\ ~parseString_ok(f)
          /\ fragment' = f
          /\ tag_hint' = hint
          /\ parsed' = _parse_fragments_to_dom(f, hint)
    /\ pc' = "salvaged"
    /\ UNCHANGED <<globalVars, repairVars, extractVars, mismatchVars, sent_docs, mapsVars, validateVars, sfpVars, hardwareVars, captureVars, poolVars, xcvrVars>>

NextSalvage == main \/ SalvageFragment

SpecSalvage == Init /\ [][NextSalvage]_vars

NextParse == main \/ ParseFragmentsToDom

SpecParse == Init /\ [][NextParse]_vars

NextRepair == main \/ RepairChassisModule \/ RepairChassisModuleAgain

SpecRepair == Init /\ [][NextRepair]_vars

BuildChassisMaps ==
    /\ pc = "ready"
    /\ \E items \in SeqsUpTo(ChassisItems, MaxElements) :
          /\ chassis_items' = items
          /\ chassis_fragment' = ChassisText(items)
          /\ chassis_maps' = _build_chassis_maps(ChassisText(items))
    /\ pc' = "maps_built"
    /\ UNCHANGED <<globalVars, repairVars, extractVars, mismatchVars, parseVars, validateVars, sfpVars, hardwareVars, captureVars, poolVars, xcvrVars>>

NextMaps == main \/ BuildChassisMaps

SpecMaps == Init /\ [][NextMaps]_vars

ValidateHardwareData ==
    /\ pc = "ready"
    /\ \E hw_list \in SeqsUpTo(Components, MaxComponents), node \in {<<"X">>, R3_KYA_PE_MOBILE_2} :
          /\ hardware_list' = hw_list
          /\ node_name' = node
          /\ cleaned_list' = validate_hardware_data(hw_list, node)
    /\ pc' = "validated"
    /\ UNCHANGED <<globalVars, repairVars, extractVars, mismatchVars, parseVars, mapsVars,
                   revalidated_list, sfpVars, hardwareVars, captureVars, poolVars, xcvrVars>>

ValidateHardwareDataAgain ==
    /\ pc = "validated"
    /\ revalidated_list' = validate_hardware_data(cleaned_list, node_name)
    /\ pc' = "revalidated"
    /\ UNCHANGED <<globalVars, repairVars, extractVars, mismatchVars, parseVars, mapsVars,
                   hardware_list, node_name, cleaned_list, sfpVars, hardwareVars, captureVars, poolVars, xcvrVars>>

NextValidate == main \/ ValidateHardwareData \/ ValidateHardwareDataAgain

SpecValidate == Init /\ [][NextValidate]_vars

\* _build_hardware_map called on the reply of a node
BuildHardwareMap ==
    /\ pc = "ready"
    /\ \E n \in 0..MaxSubModules : \E subs \in [1..n -> HardwareSubModules] :
       \E shape \in IF n = 0 THEN {"fpc", "re", "re usb", "cut off"} ELSE {"fpc"} :
       \E serial \in Optional({<<"J", "N", "1", "2", "3", "0", "E", "B", "8", "A", "F", "A">>}), node \in {<<"X">>, R3_KYA_PE_MOBILE_2} :
          LET text == HardwareText([subs |-> subs, serial |-> serial, shape |-> shape])
          IN  /\ hardware_fragment' = text
              /\ hardware_node' = node
              /\ hardware_map' = _build_hardware_map(text, node)
    /\ pc' = "hardware_built"
    /\ UNCHANGED <<globalVars, repairVars, extractVars, mismatchVars, parseVars, mapsVars,
                   validateVars, sfpVars, captureVars, poolVars, xcvrVars>>

NextHardware == main \/ BuildHardwareMap

SpecHardware == Init /\ [][NextHardware]_vars

\* _smart_sfp_inference called on an interface
SmartSfpInference ==
    /\ pc = "ready"
    /\ \E d \in InterfaceData, status \in {<<"U", "S", "E", "D">>, <<"U", "N", "U", "S", "E", "D">>, <<"U", "P">>}, all_interfaces_data \in BOOLEAN :
          /\ iface_name' = d.interface
          /\ iface_status' = status
          /\ descriptions' = d.descriptions_map
          /\ neighbors' = d.neighbors_map
          /\ iface_node' = d.node
          /\ interfaces_data' = all_interfaces_data
          /\ smart_inference' = _smart_sfp_inference(d.interface, status, d.descriptions_map,
                                    d.neighbors_map, d.node, all_interfaces_data)
    /\ pc' = "inferred"
    /\ UNCHANGED <<globalVars, repairVars, extractVars, mismatchVars, parseVars, mapsVars,
                   validateVars, sfp_report, hardwareVars, captureVars, poolVars, xcvrVars>>

\* capture_data on an interface without optics and transceiver data; its
\* status is 'USED' if configured == 'Yes' else 'UNUSED' (line 6963)
ReportSfpStatus ==
    /\ pc = "ready"
    /\ \E d \in InterfaceData, status \in {<<"U", "S", "E", "D">>, <<"U", "N", "U", "S", "E", "D">>} :
          \E row \in {final_sfp_status(d.interface, status, d.descriptions_map, d.neighbors_map, d.node)} :
              /\ iface_name' = d.interface
              /\ iface_status' = status
              /\ descriptions' = d.descriptions_map
              /\ neighbors' = d.neighbors_map
              /\ iface_node' = d.node
              /\ interfaces_data' = FALSE
              /\ smart_inference' = row.smart_inference
              /\ sfp_report' = row
    /\ pc' = "reported"
    /\ UNCHANGED <<globalVars, repairVars, extractVars, mismatchVars, parseVars, mapsVars,
                   validateVars, hardwareVars, captureVars, poolVars, xcvrVars>>

NextSfp == main \/ SmartSfpInference \/ ReportSfpStatus

SpecSfp == Init /\ [][NextSfp]_vars

(***************************************************************************)
(* capture_data                                                            *)
(***************************************************************************)
\* line 6395
max_retries == 5

\* one timeout for every attempt
progressive_timeouts_flat == <<60, 60, 60, 60, 60>>

\* line 6396
progressive_timeouts == <<60, 90, 120, 180, 240>>

\* line 6745
types_to_check == {"xe", "et", "ge", "ae"}

\* {'rows': [], 'util': [], 'alarms': [], 'hardware': []}
EMPTY_RESULT == [rows |-> <<>>, util |-> <<>>, alarms |-> <<>>, hardware |-> <<>>]

\* dict.get(key, default)
dict_get(dict, key, default) == IF key \in DOMAIN dict THEN dict[key] ELSE default

\* the handle left as it is
left_open(handle) == IF handle = None THEN None ELSE handle

\* the handle after the cleanup: close() is called on a handle that is set
closed(handle) == IF handle = None THEN None ELSE "closed"

\* lines 7378-7387: the placeholder row of a node without hardware
hardware_rows(hardware) == IF hardware = <<>> THEN <<"NO DATA">> ELSE hardware

\* the nodes capture_data is called on; '' after strip() returns at once
CaptureNodes == {<<>>, <<"X">>, <<"R", "4", ".", "N", "S", "K", ".", "P", "E", "-", "M", "O", "B", "I", "L", "E", ".", "2">>}

\* what the device may answer: the first part of the name of each physical
\* interface (parts[0]; lo0 has no dash), the alarms and the components
InterfaceDocs == UNION {[1..n -> {"xe", "ae", "lo0"}] : n \in 0..MaxInterfaces}

AlarmLists == {<<>>, <<"Major">>}

HardwareLists == {<<>>, <<"FPC">>}

\* capture_data is entered (lines 6381-6391)
CaptureData ==
    /\ pc = "ready"
    /\ \E nd \in CaptureNodes :
          /\ capture_node' = nd
          /\ IF nd = <<>>
             THEN /\ capture_outcome' = [kind |-> "return", value |-> EMPTY_RESULT]
                  /\ pc' = "captured"
             ELSE /\ capture_outcome' = [kind |-> "running"]
                  /\ pc' = "connect"
    /\ attempt' = 0
    /\ timeouts_tried' = <<>>
    /\ ssh_client' = None
    /\ channel' = None
    /\ commands_sent' = <<>>
    /\ alarm_list' = <<>>
    /\ parsed_hardware' = <<>>
    /\ iface_doc' = [kind |-> "None", doc |-> <<>>]
    /\ phy_index' = 0
    /\ debug_fpc_lookup' = "unbound"
    /\ node_rows' = <<>>
    /\ node_util' = <<>>
    /\ UNCHANGED <<globalVars, repairVars, extractVars, mismatchVars, parseVars, mapsVars,
                   validateVars, sfpVars, hardwareVars, poolVars, xcvrVars>>

\* one turn of the loop of lines 6398-6415: connect_to_tacacs succeeds, or
\* raises on the last attempt, or raises on an earlier one
ConnectToTacacs ==
    /\ pc = "connect"
    /\ timeouts_tried' = Append(timeouts_tried,
                                IF attempt < Len(progressive_timeouts)
                                THEN progressive_timeouts[attempt + 1] ELSE 90)
    /\ \/ /\ ssh_client' = "open"
          /\ pc' = "invoke_shell"
          /\ UNCHANGED <<attempt, capture_outcome, poolVars, xcvrVars>>
       \/ /\ attempt = max_retries - 1
          /\ capture_outcome' = [kind |-> "return", value |-> EMPTY_RESULT]
          /\ pc' = "captured"
          /\ UNCHANGED <<attempt, ssh_client, poolVars, xcvrVars>>
       \/ /\ attempt # max_retries - 1
          /\ attempt' = attempt + 1
          /\ UNCHANGED <<pc, ssh_client, capture_outcome, poolVars, xcvrVars>>
    /\ UNCHANGED <<globalVars, repairVars, extractVars, mismatchVars, parseVars, mapsVars,
                   validateVars, sfpVars, hardwareVars, capture_node, channel, commands_sent,
                   alarm_list, parsed_hardware, iface_doc, phy_index, debug_fpc_lookup, node_rows,
                   node_util, poolVars, xcvrVars>>

\* lines 6422-6431: ssh_client.invoke_shell() returns the channel or raises
InvokeShell ==
    /\ pc = "invoke_shell"
    /\ \/ /\ channel' = "open"
          /\ pc' = "ssh_node"
          /\ UNCHANGED <<ssh_client, capture_outcome, poolVars, xcvrVars>>
       \/ /\ ssh_client' = closed(ssh_client)
          /\ capture_outcome' = [kind |-> "return", value |-> EMPTY_RESULT]
          /\ pc' = "captured"
          /\ UNCHANGED channel
    /\ UNCHANGED <<globalVars, repairVars, extractVars, mismatchVars, parseVars, mapsVars,
                   validateVars, sfpVars, hardwareVars, capture_node, attempt, timeouts_tried,
                   commands_sent, alarm_list, parsed_hardware, iface_doc, phy_index, debug_fpc_lookup,
                   node_rows, node_util, poolVars, xcvrVars>>

\* lines 6433-6470: the hop to the node; a channel.send that raises, the
\* first one or the one of the password, ends the call
SshToNode ==
    /\ pc = "ssh_node"
    /\ \/ /\ commands_sent' = Append(commands_sent, "ssh")
          /\ pc' = "commands"
          /\ UNCHANGED <<ssh_client, channel, capture_outcome, poolVars, xcvrVars>>
       \/ /\ \E sent_before \in {<<>>, <<"ssh">>} : commands_sent' = commands_sent \o sent_before
          /\ channel' = closed(channel)
          /\ ssh_client' = closed(ssh_client)
          /\ capture_outcome' = [kind |-> "return", value |-> EMPTY_RESULT]
          /\ pc' = "captured"
    /\ UNCHANGED <<globalVars, repairVars, extractVars, mismatchVars, parseVars, mapsVars,
                   validateVars, sfpVars, hardwareVars, capture_node, attempt, timeouts_tried,
                   alarm_list, parsed_hardware, iface_doc, phy_index, debug_fpc_lookup, node_rows,
                   node_util, poolVars, xcvrVars>>

\* lines 6472-6672: the show commands, sent by run_cmd_expect_xml, which
\* catches what channel.send raises, and the maps built from the replies
RunCommands ==
    /\ pc = "commands"
    /\ commands_sent' = Append(commands_sent, "show")
    /\ alarm_list' \in AlarmLists
    /\ parsed_hardware' \in HardwareLists
    /\ iface_doc' \in {[kind |-> "None", doc |-> <<>>]} \cup {[kind |-> "doc", doc |-> d] : d \in InterfaceDocs}
    /\ pc' = "parse"
    /\ UNCHANGED <<globalVars, repairVars, extractVars, mismatchVars, parseVars, mapsVars,
                   validateVars, sfpVars, hardwareVars, capture_node, attempt, timeouts_tried,
                   ssh_client, channel, phy_index, debug_fpc_lookup, node_rows, node_util,
                   capture_outcome, poolVars, xcvrVars>>

\* the finally of lines 7388-7427, through which the body is left: exit is
\* sent on the channel, channel and client are closed
Finally(leaving) ==
    /\ commands_sent' = IF channel = None THEN commands_sent ELSE Append(commands_sent, "exit")
    /\ channel' = closed(channel)
    /\ ssh_client' = closed(ssh_client)
    /\ capture_outcome' = leaving
    /\ pc' = "captured"

\* lines 6674-6686: without a document of the interfaces the call returns;
\* else the configuration is asked for, by a channel.send nothing catches
ParseInterfaces ==
    /\ pc = "parse"
    /\ \/ /\ iface_doc.kind = "None"
          /\ Finally([kind |-> "return",
                      value |-> [rows |-> <<>>, util |-> <<>>, alarms |-> <<>>]])
          /\ UNCHANGED phy_index
       \/ /\ iface_doc.kind # "None"
          /\ commands_sent' = Append(commands_sent, "show configuration")
          /\ phy_index' = 1
          /\ pc' = "rows"
          /\ UNCHANGED <<ssh_client, channel, capture_outcome, poolVars, xcvrVars>>
       \/ /\ iface_doc.kind # "None"
          /\ Finally([kind |-> "raise", error |-> "OSError"])
          /\ UNCHANGED phy_index
    /\ UNCHANGED <<globalVars, repairVars, extractVars, mismatchVars, parseVars, mapsVars,
                   validateVars, sfpVars, hardwareVars, capture_node, attempt, timeouts_tried,
                   alarm_list, parsed_hardware, iface_doc, debug_fpc_lookup, node_rows, node_util, poolVars, xcvrVars>>

\* lines 6747-7354: one physical interface.  Only the branch of an
\* interface that is not ae assigns debug_fpc_lookup (line 6881), and line
\* 6909 reads it for every interface of a type of types_to_check
PhysicalInterface ==
    /\ pc = "rows"
    /\ phy_index <= Len(iface_doc.doc)
    /\ \/ /\ iface_doc.doc[phy_index] \notin types_to_check
          /\ phy_index' = phy_index + 1
          /\ UNCHANGED <<pc, ssh_client, channel, commands_sent, capture_outcome,
                         debug_fpc_lookup, node_rows, node_util, poolVars, xcvrVars>>
       \/ /\ iface_doc.doc[phy_index] = "ae"
          /\ debug_fpc_lookup = "unbound"
          /\ Finally([kind |-> "raise", error |-> "UnboundLocalError"])
          /\ UNCHANGED <<phy_index, debug_fpc_lookup, node_rows, node_util, poolVars, xcvrVars>>
       \/ /\ iface_doc.doc[phy_index] \in types_to_check
          /\ iface_doc.doc[phy_index] = "ae" => debug_fpc_lookup # "unbound"
          /\ debug_fpc_lookup' = IF iface_doc.doc[phy_index] = "ae" THEN debug_fpc_lookup
                                 ELSE IF capture_node \in {<<"R", "4", ".", "N", "S", "K", ".", "P", "E", "-", "M", "O", "B", "I", "L", "E", ".", "2">>} THEN "True" ELSE "False"
          /\ \E used_flag \in BOOLEAN :
                node_rows' = IF used_flag THEN Append(node_rows, iface_doc.doc[phy_index])
                             ELSE node_rows
          /\ node_util' = Append(node_util, iface_doc.doc[phy_index])
          /\ phy_index' = phy_index + 1
          /\ UNCHANGED <<pc, ssh_client, channel, commands_sent, capture_outcome, poolVars, xcvrVars>>
    /\ UNCHANGED <<globalVars, repairVars, extractVars, mismatchVars, parseVars, mapsVars,
                   validateVars, sfpVars, hardwareVars, capture_node, attempt, timeouts_tried,
                   alarm_list, parsed_hardware, iface_doc, poolVars, xcvrVars>>

\* lines 7356-7429: after the last interface the alarms and the hardware go
\* into the result
ReturnResult ==
    /\ pc = "rows"
    /\ phy_index > Len(iface_doc.doc)
    /\ Finally([kind |-> "return",
                value |-> [rows |-> node_rows, util |-> node_util, alarms |-> alarm_list,
                           hardware |-> hardware_rows(parsed_hardware), system_perf |-> <<>>]])
    /\ UNCHANGED <<globalVars, repairVars, extractVars, mismatchVars, parseVars, mapsVars,
                   validateVars, sfpVars, hardwareVars, capture_node, attempt, timeouts_tried,
                   alarm_list, parsed_hardware, iface_doc, phy_index, debug_fpc_lookup, node_rows,
                   node_util, poolVars, xcvrVars>>

NextCapture ==
    \/ main
    \/ CaptureData
    \/ ConnectToTacacs
    \/ InvokeShell
    \/ SshToNode
    \/ RunCommands
    \/ ParseInterfaces
    \/ PhysicalInterface
    \/ ReturnResult

SpecCapture == Init /\ [][NextCapture]_vars

(***************************************************************************)
(* main: the worker pool and the sequential retry                          *)
(***************************************************************************)
\* a pool with one thread more
MAX_WORKERS_two == 1 + 1

\* line 70
MAX_WORKERS == 1

\* no except clause around the result of the future
caught_nothing(error) == FALSE

\* `except Exception` (lines 7581 and 7660) catches the exceptions capture_data raises
caught(error) == error \in {"UnboundLocalError", "OSError"}

\* the names in the node list file; a name may stand on several lines
NodeNames == {"R1", "R2"}

\* what a call of capture_data gives: an exception, the empty result, the
\* early return of line 6679, a device without xe, et, ge or ae interface,
\* and a device with rows
CaptureResults == {[kind |-> "raise", error |-> "UnboundLocalError"], [kind |-> "return", value |-> EMPTY_RESULT], [kind |-> "return", value |-> [rows |-> <<>>, util |-> <<>>, alarms |-> <<>>]], [kind |-> "return", value |-> [rows |-> <<>>, util |-> <<>>, alarms |-> <<"Major">>, hardware |-> <<"NO DATA">>, system_perf |-> <<>>]], [kind |-> "return", value |-> [rows |-> <<"xe">>, util |-> <<"xe">>, alarms |-> <<>>, hardware |-> <<"FPC">>, system_perf |-> <<>>]]}

\* lines 7513-7540: the node list is read, every node gets empty results and
\* one future is submitted for each entry
ReadNodes ==
    /\ pc = "ready"
    /\ \E n \in 0..MaxNodes : \E f \in [1..n -> NodeNames] :
          /\ main_nodes' = f
          /\ futures' = [i \in 1..n |-> [state |-> "pending", outcome |-> [kind |-> "none"]]]
          /\ results' = [nd \in {f[i] : i \in 1..n} |-> <<>>]
          /\ util_results' = [nd \in {f[i] : i \in 1..n} |-> <<>>]
          /\ alarm_results' = [nd \in {f[i] : i \in 1..n} |-> <<>>]
          /\ hardware_results' = [nd \in {f[i] : i \in 1..n} |-> <<>>]
    /\ handled' = {}
    /\ last_handled' = 0
    /\ executing' = {}
    /\ failed_nodes' = <<>>
    /\ retry_index' = 0
    /\ retry_data' = [kind |-> "none"]
    /\ retried' = <<>>
    /\ pc' = "pool"
    /\ UNCHANGED <<globalVars, repairVars, extractVars, mismatchVars, parseVars, mapsVars,
                   validateVars, sfpVars, hardwareVars, captureVars, xcvrVars>>

\* a thread of the pool that is idle takes the oldest pending future and
\* enters capture_data (ThreadPoolExecutor(max_workers=MAX_WORKERS), line 7539)
WorkerStart ==
    /\ pc = "pool"
    /\ \E w \in 1..MAX_WORKERS : \E i \in DOMAIN futures :
          /\ \A e \in executing : e.thread # w
          /\ futures[i].state = "pending"
          /\ \A j \in 1..(i - 1) : futures[j].state # "pending"
          /\ futures' = [futures EXCEPT ![i].state = "running"]
          /\ executing' = executing \cup {[thread |-> w, entry |-> i, node |-> main_nodes[i]]}
    /\ UNCHANGED <<pc, globalVars, repairVars, extractVars, mismatchVars, parseVars, mapsVars,
                   validateVars, sfpVars, hardwareVars, captureVars, main_nodes, handled,
                   last_handled, results, util_results, alarm_results, hardware_results,
                   failed_nodes, retry_index, retry_data, retried, xcvrVars>>

\* capture_data returns or raises in a thread of the pool: the future is done
WorkerFinish ==
    /\ pc = "pool"
    /\ \E e \in executing : \E r \in CaptureResults :
          /\ e.thread # 0
          /\ futures' = [futures EXCEPT ![e.entry] = [state |-> "done", outcome |-> r]]
          /\ executing' = executing \ {e}
    /\ UNCHANGED <<pc, globalVars, repairVars, extractVars, mismatchVars, parseVars, mapsVars,
                   validateVars, sfpVars, hardwareVars, captureVars, main_nodes, handled,
                   last_handled, results, util_results, alarm_results, hardware_results,
                   failed_nodes, retry_index, retry_data, retried, xcvrVars>>

\* lines 7555-7558 and 7587-7590: what the loop body stores for the node
stored(data, key) == IF data.kind = "raise" THEN <<>> ELSE dict_get(data.value, key, <<>>)

\* lines 7545-7605: the body of the loop over as_completed(futures), for a
\* future that is done
AsCompleted ==
    /\ pc = "pool"
    /\ \E i \in DOMAIN futures :
          /\ futures[i].state = "done"
          /\ i \notin handled
          /\ handled' = handled \cup {i}
          /\ last_handled' = i
          /\ IF futures[i].outcome.kind = "raise" /\ ~caught(futures[i].outcome.error)
             THEN /\ pc' = "aborted"
                  /\ UNCHANGED <<results, util_results, alarm_results, hardware_results, xcvrVars>>
             ELSE /\ pc' = pc
                  /\ results' = [results EXCEPT ![main_nodes[i]] = stored(futures[i].outcome, "rows")]
                  /\ util_results' = [util_results EXCEPT ![main_nodes[i]] = stored(futures[i].outcome, "util")]
                  /\ alarm_results' = [alarm_results EXCEPT ![main_nodes[i]] = stored(futures[i].outcome, "alarms")]
                  /\ hardware_results' = [hardware_results EXCEPT ![main_nodes[i]] = stored(futures[i].outcome, "hardware")]
    /\ UNCHANGED <<globalVars, repairVars, extractVars, mismatchVars, parseVars, mapsVars,
                   validateVars, sfpVars, hardwareVars, captureVars, main_nodes, futures,
                   executing, failed_nodes, retry_index, retry_data, retried, xcvrVars>>

\* line 7634
failed_nodes_of(node_list, rows, util) == SelectSeq(node_list, LAMBDA nd : rows[nd] = <<>> /\ util[nd] = <<>>)

\* lines 7607-7634: the loop over as_completed has ended, so every future is
\* done; the summary divides by len(nodes) (line 7613); the pool is shut
\* down and the nodes to retry are listed
ProcessingSummary ==
    /\ pc = "pool"
    /\ handled = DOMAIN futures
    /\ IF main_nodes = <<>>
       THEN /\ pc' = "aborted"
            /\ UNCHANGED <<failed_nodes, retry_index, xcvrVars>>
       ELSE /\ pc' = "retry"
            /\ failed_nodes' = failed_nodes_of(main_nodes, results, util_results)
            /\ retry_index' = 1
    /\ UNCHANGED <<globalVars, repairVars, extractVars, mismatchVars, parseVars, mapsVars,
                   validateVars, sfpVars, hardwareVars, captureVars, main_nodes, futures,
                   handled, last_handled, executing, results, util_results, alarm_results,
                   hardware_results, retry_data, retried, xcvrVars>>

\* lines 7641-7645: the retry loop calls capture_data in the main thread
SequentialRetry ==
    /\ pc = "retry"
    /\ retry_index <= Len(failed_nodes)
    /\ executing' = executing \cup {[thread |-> 0, entry |-> retry_index, node |-> failed_nodes[retry_index]]}
    /\ retried' = Append(retried, failed_nodes[retry_index])
    /\ pc' = "retrying"
    /\ UNCHANGED <<globalVars, repairVars, extractVars, mismatchVars, parseVars, mapsVars,
                   validateVars, sfpVars, hardwareVars, captureVars, main_nodes, futures,
                   handled, last_handled, results, util_results, alarm_results,
                   hardware_results, failed_nodes, retry_index, retry_data, xcvrVars>>

\* any dict counts as a recovery
recovered_by_any_dict(data) == data.kind = "return"

\* line 7647
recovered(data) == data.kind = "return" /\ (dict_get(data.value, "rows", <<>>) # <<>> \/ dict_get(data.value, "util", <<>>) # <<>>)

\* lines 7645-7664: the call returns or raises; the results of the node are
\* replaced when it returned rows
RetryResult ==
    /\ pc = "retrying"
    /\ \E r \in CaptureResults :
          /\ retry_data' = r
          /\ IF r.kind = "raise" /\ ~caught(r.error)
             THEN /\ pc' = "aborted"
                  /\ UNCHANGED <<results, util_results, alarm_results, hardware_results, xcvrVars>>
             ELSE /\ pc' = "retry"
                  /\ IF recovered(r)
                     THEN /\ results' = [results EXCEPT ![failed_nodes[retry_index]] = dict_get(r.value, "rows", <<>>)]
                          /\ util_results' = [util_results EXCEPT ![failed_nodes[retry_index]] = dict_get(r.value, "util", <<>>)]
                          /\ alarm_results' = [alarm_results EXCEPT ![failed_nodes[retry_index]] = dict_get(r.value, "alarms", <<>>)]
                          /\ hardware_results' = [hardware_results EXCEPT ![failed_nodes[retry_index]] = dict_get(r.value, "hardware", <<>>)]
                     ELSE UNCHANGED <<results, util_results, alarm_results, hardware_results, xcvrVars>>
    /\ executing' = {e \in executing : e.thread # 0}
    /\ retry_index' = retry_index + 1
    /\ UNCHANGED <<globalVars, repairVars, extractVars, mismatchVars, parseVars, mapsVars,
                   validateVars, sfpVars, hardwareVars, captureVars, main_nodes, futures,
                   handled, last_handled, failed_nodes, retried, xcvrVars>>

\* lines 7679 and after: the retry loop has ended and the report is written
WriteReport ==
    /\ pc = "retry"
    /\ retry_index > Len(failed_nodes)
    /\ pc' = "report"
    /\ UNCHANGED <<globalVars, repairVars, extractVars, mismatchVars, parseVars, mapsVars,
                   validateVars, sfpVars, hardwareVars, captureVars, poolVars, xcvrVars>>

NextPool ==
    \/ main
    \/ ReadNodes
    \/ WorkerStart
    \/ WorkerFinish
    \/ AsCompleted
    \/ ProcessingSummary
    \/ SequentialRetry
    \/ RetryResult
    \/ WriteReport

SpecPool == Init /\ [][NextPool]_vars

\* the threads keep running and main keeps going
SpecPoolLive == SpecPool /\ WF_vars(NextPool)

(***************************************************************************)
(* add_xcvr_map and _lookup_xcvr_label                                     *)
(***************************************************************************)
\* key in xcvr_map, for the dict kept as the list of its items
has_key(items, key) == \E i \in DOMAIN items : items[i][1] = key

\* xcvr_map[key]
value_of(items, key) == items[CHOOSE i \in DOMAIN items : items[i][1] = key][2]

\* lines 3701-3702: a key is set only when the dict does not hold it yet
set_if_absent(items, key, label) == IF has_key(items, key) THEN items ELSE Append(items, <<key, label>>)

\* lines 3684-3690: the coordinates that are not None, as text; a coordinate
\* is <<>> for None or <<n>>
xcvr_parts(fpc, pic, port) == [k \in 1..Len(fpc \o pic \o port) |-> str((fpc \o pic \o port)[k])]

\* lines 3691-3697
xcvr_combos(parts) ==
    IF Len(parts) = 3 THEN <<Join(parts, "/"), Join(Tail(parts), "/"), parts[3]>>
    ELSE IF Len(parts) = 2 THEN <<Join(parts, "/"), parts[2]>>
    ELSE IF Len(parts) = 1 THEN <<parts[1]>>
    ELSE <<>>

\* lines 3698-3702: the loop over combos
RECURSIVE add_combos(_, _, _)
add_combos(items, combos, label) ==
    IF combos = <<>> THEN items
    ELSE add_combos(IF Head(combos) # <<>> /\ strip(Head(combos)) # <<>>
                    THEN set_if_absent(items, strip(Head(combos)), label)
                    ELSE items,
                    Tail(combos), label)

\* lines 3683-3706
add_xcvr_map(items, fpc, pic, port, label) ==
    IF port # <<>>
    THEN set_if_absent(add_combos(items, xcvr_combos(xcvr_parts(fpc, pic, port)), label), str(port[1]), label)
    ELSE add_combos(items, xcvr_combos(xcvr_parts(fpc, pic, port)), label)

\* every key counts as ending with the port number
endswith_anything(s, suffix) == TRUE

\* s.endswith(suffix)
endswith(s, suffix) == Len(suffix) <= Len(s) /\ SubSeq(s, Len(s) - Len(suffix) + 1, Len(s)) = suffix

\* lines 6356-6362
keys_to_try(fpc, pic, port) ==
    IF fpc # <<>> /\ pic # <<>> /\ port # <<>>
    THEN <<str(fpc[1]) \o <<"/">> \o str(pic[1]) \o <<"/">> \o str(port[1]), str(pic[1]) \o <<"/">> \o str(port[1]), str(port[1])>>
    ELSE IF pic # <<>> /\ port # <<>>
    THEN <<str(pic[1]) \o <<"/">> \o str(port[1]), str(port[1])>>
    ELSE IF port # <<>> THEN <<str(port[1])>>
    ELSE <<>>

\* lines 6364-6366: the first key to try that holds a label
RECURSIVE first_label(_, _)
first_label(items, keys) ==
    IF keys = <<>> THEN <<>>
    ELSE IF has_key(items, Head(keys)) /\ value_of(items, Head(keys)) # <<>>
    THEN value_of(items, Head(keys))
    ELSE first_label(items, Tail(keys))

\* lines 6367-6376: the first item, in the order of the dict, whose key ends
\* with the port number and that holds a label
RECURSIVE tolerant_search(_, _, _)
tolerant_search(items, i, pstr) ==
    IF i > Len(items) THEN <<>>
    ELSE IF (endswith(items[i][1], <<"/">> \o pstr) \/ items[i][1] = pstr) /\ items[i][2] # <<>>
    THEN items[i][2]
    ELSE tolerant_search(items, i + 1, pstr)

\* lines 6347-6379
_lookup_xcvr_label(items, fpc, pic, port) ==
    IF items = <<>> THEN <<>>
    ELSE IF first_label(items, keys_to_try(fpc, pic, port)) # <<>>
    THEN first_label(items, keys_to_try(fpc, pic, port))
    ELSE IF port # <<>> THEN tolerant_search(items, 1, str(port[1]))
    ELSE <<>>

\* the numbers read from the fpc and port leaves of a transceiver, and from
\* its pic leaf; <<>> when the leaf is missing
XcvrCoords == Optional({0, 1})

XcvrPics == Optional({0})

\* what _clean_label gives for the label of the k-th transceiver: '' for a
\* label of digits only (line 3492), or a text of its own
XcvrLabels(k) == {<<>>, <<"S", "F", "P", "-">> \o str(k)}

\* lines 3851-3895: a transceiver node of the chassis reply is recorded
AddXcvr ==
    /\ pc \in {"ready", "xcvr"}
    /\ Len(recorded) < MaxXcvrs
    /\ \E fpc \in XcvrCoords : \E pic \in XcvrPics : \E port \in XcvrCoords : \E label \in XcvrLabels(Len(recorded) + 1) :
          /\ xcvr_map' = add_xcvr_map(xcvr_map, fpc, pic, port, label)
          /\ recorded' = Append(recorded, [fpc |-> fpc, pic |-> pic, port |-> port, label |-> label])
    /\ pc' = "xcvr"
    /\ UNCHANGED <<globalVars, repairVars, extractVars, mismatchVars, parseVars, mapsVars,
                   validateVars, sfpVars, hardwareVars, captureVars, poolVars, lookup_args,
                   lookup_label>>

\* lines 6984-7001: capture_data looks the label up with the coordinates of
\* the interface, then with the pic and the port, then with the port alone
LookupXcvr ==
    /\ pc = "xcvr"
    /\ \E fpc \in XcvrCoords : \E pic \in XcvrCoords : \E port \in {<<0>>, <<1>>} :
          /\ (fpc # <<>> => pic # <<>>)
          /\ lookup_args' = <<fpc, pic, port>>
          /\ lookup_label' = _lookup_xcvr_label(xcvr_map, fpc, pic, port)
    /\ pc' = "looked_up"
    /\ UNCHANGED <<globalVars, repairVars, extractVars, mismatchVars, parseVars, mapsVars,
                   validateVars, sfpVars, hardwareVars, captureVars, poolVars, xcvr_map,
                   recorded>>

NextXcvr == main \/ AddXcvr \/ LookupXcvr

SpecXcvr == Init /\ [][NextXcvr]_vars

(***************************************************************************)
(* Claims about _repair_chassis_module_xml.                                *)
(***************************************************************************)
Repaired == pc \in {"repaired", "repaired_again"}

\* C1: whenever the fragment has more <chassis-module> opening tags than
\* </chassis-module> closing tags, in any order, the returned string has as
\* many opening as closing tags.
C1_RepairBalances ==
    (Repaired /\ Count(xml_fragment, OPEN_CM) > Count(xml_fragment, CLOSE_CM))
        => Count(repaired_xml, OPEN_CM) = Count(repaired_xml, CLOSE_CM)

\* C2: the repair is idempotent: applied to its own output it returns that
\* output unchanged.
C2_RepairIdempotent ==
    pc = "repaired_again" => repaired_again = repaired_xml

C2_Witness ==
    /\ pc = "repaired_again"
    /\ repaired_xml # xml_fragment
    /\ Count(repaired_xml, CLOSE_CM) = Count(xml_fragment, CLOSE_CM) + 2

\* The place the claim C3 names: right before the last </chassis-inventory>,
\* else </chassis>, else </inventory>, else </fpc-information>, failing that
\* right before </rpc-reply>, failing that the end of the string.
RECURSIVE claimed_container(_, _)
claimed_container(s, n) ==
    IF n > Len(insertion_candidates) THEN 0
    ELSE IF RFindBefore(s, insertion_candidates[n], Len(s) + 1) # 0
    THEN RFindBefore(s, insertion_candidates[n], Len(s) + 1)
    ELSE claimed_container(s, n + 1)

claimed_insert_pos(s) ==
    IF claimed_container(s, 1) # 0 THEN claimed_container(s, 1)
    ELSE IF RFindBefore(s, CLOSE_RPC, Len(s) + 1) # 0 THEN RFindBefore(s, CLOSE_RPC, Len(s) + 1)
    ELSE Len(s) + 1

\* C3: when closing tags are inserted, they are inserted at that place, so
\* that what precedes and what follows it is the input, unchanged, and the
\* inserted text is made of </chassis-module> tags and white space only.
C3_InsertedBeforeContainerClose ==
    (Repaired /\ repaired_xml # xml_fragment) =>
        LET p == claimed_insert_pos(xml_fragment)
            n == Len(repaired_xml) - Len(xml_fragment)
        IN  /\ SubSeq(repaired_xml, 1, p - 1) = SubSeq(xml_fragment, 1, p - 1)
            /\ SubSeq(repaired_xml, p + n, Len(repaired_xml))
                 = SubSeq(xml_fragment, p, Len(xml_fragment))
            /\ \A i \in p..(p + n - 1) : repaired_xml[i] \in {CLOSE_CM, NL, Indent(4)}

(***************************************************************************)
(* Claims about _extract_xml_fragment.                                     *)
(***************************************************************************)
Extracted == pc \in {"extracted", "re_extracted"}

\* C4, as stated: for raw text holding N >= 1 well-formed, non-nested
\* rpc-reply blocks with arbitrary text between them, the result is exactly
\* those N blocks, in order, and extracting again from the result returns
\* the same blocks.
C4_ExtractsExactlyTheBlocks ==
    /\ Extracted => extracted = Join(raw_capture.blocks, NL)
    /\ pc = "re_extracted" => re_extracted = extracted

\* C4, amended: the same, provided the text around the blocks holds no
\* further "<rpc-reply".
NoStrayRpcOpen == Count(buff, RPC_OPEN) = Len(raw_capture.blocks)

C4_ExtractsTheBlocksWithoutStrayOpen ==
    /\ (Extracted /\ NoStrayRpcOpen) => extracted = Join(raw_capture.blocks, NL)
    /\ (pc = "re_extracted" /\ NoStrayRpcOpen) => re_extracted = extracted

C4_Witness ==
    /\ pc = "re_extracted"
    /\ NoStrayRpcOpen
    /\ Len(raw_capture.blocks) = 2
    /\ raw_capture.gaps[2] # <<>>
    /\ extracted # buff

(***************************************************************************)
(* Claims about _repair_xml_tag_mismatches.                                *)
(***************************************************************************)
\* the text without the white space that goes with an inserted closing tag
RECURSIVE WithoutInsertedSpace(_)
WithoutInsertedSpace(x) ==
    IF x = <<>> THEN <<>>
    ELSE IF Head(x) \in {NL, Indent(20)} THEN WithoutInsertedSpace(Tail(x))
    ELSE <<Head(x)>> \o WithoutInsertedSpace(Tail(x))

\* C7: for an input that is properly nested but for one known simple element
\* whose closing tag is missing directly before the closing tag of its
\* parent, the result is the input with exactly that closing tag put back at
\* that place and nothing else changed, and so is properly nested.
C7_RestoresTheLostClosingTag ==
    pc = "mismatches_repaired" =>
        WithoutInsertedSpace(repaired_content) = intact_xml

(***************************************************************************)
(* Claims about _parse_fragments_to_dom.                                   *)
(***************************************************************************)
\* the slots of the chassis-module elements of a text, in document order
RECURSIVE SlotsIn(_)
SlotsIn(x) ==
    IF Len(x) < 3 THEN <<>>
    ELSE IF x[1] = OPEN_CM /\ x[2] = Open("name") /\ x[3].k = "text"
         THEN x[3].d \o SlotsIn(Tail(x))
         ELSE SlotsIn(Tail(x))

RECURSIVE SentSlots(_, _)
SentSlots(rds, j) ==
    IF j > Len(rds) THEN <<>>
    ELSE [i \in 1..Len(rds[j].kinds) |-> (j - 1) * MaxModules + i] \o SentSlots(rds, j + 1)

KindsSent == UNION {{sent_docs[j].kinds[i] : i \in 1..Len(sent_docs[j].kinds)} :
                       j \in 1..Len(sent_docs)}

\* C5: for two concatenated rpc-reply documents with disjoint chassis-module
\* slots, the returned document holds every chassis-module of both exactly
\* once, also when a block needs the repair of a lost </chassis-module>.
C5_MergedDocumentIsTheUnion ==
    (pc = "parsed" /\ Len(sent_docs) = 2 /\ KindsSent \subseteq {"ok", "unclosed"}) =>
        /\ parsed.kind = "doc"
        /\ SlotsIn(parsed.doc) = SentSlots(sent_docs, 1)
        /\ Count(parsed.doc, OPEN_CM) = Len(SentSlots(sent_docs, 1))

\* C6: for every input the call returns a document or None; no exception
\* reaches the caller.
C6_ParseNeverRaises ==
    pc = "parsed" => parsed.kind \in {"doc", "None"}

(***************************************************************************)
(* Claims about _build_chassis_maps.                                       *)
(***************************************************************************)
MapsBuilt == pc = "maps_built" /\ chassis_maps.kind = "maps"

PlaceholderLabels == {<<"N", "/", "A">>, <<"N", "o", "n", "e">>, <<"U", "n", "k", "n", "o", "w", "n">>, <<>>}

DefaultLabel == <<"U", "n", "k", "n", "o", "w", "n", " ", "M", "o", "d", "u", "l", "e">>

\* C8: a slot is in the module map only with a label that was found for it:
\* never with a placeholder, and never with a default label such as
\* 'Unknown Module' for a chassis-module without usable model number and
\* description.
C8_NoDefaultLabelStored ==
    MapsBuilt =>
        \A key \in DOMAIN chassis_maps.module_map :
            chassis_maps.module_map[key] \notin PlaceholderLabels \cup {DefaultLabel}

\* the decimal numeral, without leading zeros, of the slot in "FPC <digits>"
SlotKey(name) ==
    LET digits == SubSeq(name, 5, Len(name))
        significant == lstrip(digits, {"0"})
    IN  IF significant = <<>> THEN <<"0">> ELSE significant

ChassisModules == {i \in 1..Len(chassis_items) : chassis_items[i].tag = "chassis-module"}

HasUsableModel(i) ==
    /\ chassis_items[i].model # <<>>
    /\ strip(chassis_items[i].model[1]) \notin PlaceholderLabels

\* the label holds the model number, as written or with its dashes as spaces
DerivedFrom(label, model) ==
    contains(label, model) \/ contains(label, replace(model, <<"-">>, <<" ">>))

MappedToItsModel(i) ==
    LET key == SlotKey(chassis_items[i].name)
    IN  /\ key \in DOMAIN chassis_maps.module_map
        /\ chassis_maps.module_map[key] # <<>>
        /\ DerivedFrom(chassis_maps.module_map[key], chassis_items[i].model[1])

\* C9, as stated: every chassis-module named "FPC n" with a usable model
\* number has its slot mapped, under the key str(n), to a description derived
\* from that model number.
C9_EveryModuleMappedToItsModel ==
    MapsBuilt => \A i \in ChassisModules : HasUsableModel(i) => MappedToItsModel(i)

IsLastForItsSlot(i) ==
    \A j \in ChassisModules :
        j > i => SlotKey(chassis_items[j].name) # SlotKey(chassis_items[i].name)

\* C9, amended: the last chassis-module of a slot decides.  When the last
\* chassis-module named "FPC n" has a usable model number, the key str(n) is
\* mapped to a description derived from that model number, whatever the fpc
\* elements and the earlier chassis-modules of the slot carry.
C9_LastModuleMappedToItsModel ==
    MapsBuilt =>
        \A i \in ChassisModules :
            HasUsableModel(i) /\ IsLastForItsSlot(i) => MappedToItsModel(i)

\* an fpc element of slot 3 without a label, then the chassis-module
\* "FPC 03" with its model number: the key is "3"
C9_Witness ==
    /\ MapsBuilt
    /\ Len(chassis_items) = 2
    /\ chassis_items[1].tag = "fpc"
    /\ chassis_items[1].name = <<"3">>
    /\ chassis_items[1].description = <<>>
    /\ chassis_items[2].tag = "chassis-module"
    /\ chassis_items[2].name = <<"F", "P", "C", " ", "0", "3">>
    /\ chassis_items[2].model = <<<<"M", "P", "C", "7", "E", "-", "M", "R", "A", "T", "E">>>>
    /\ DOMAIN chassis_maps.module_map = {<<"3">>}
    /\ contains(chassis_maps.module_map[<<"3">>], <<"M", "P", "C", "7", "E">>)

(***************************************************************************)
(* Claims about validate_hardware_data.                                    *)
(***************************************************************************)
TestSerials == {<<"J", "N", "1", "2", "3", "0", "E", "B", "8", "A", "F", "A">>, <<"A", "C", "R", "B", "2", "3", "6", "7">>}

IsRetainedKind(hardware) ==
    \/ hardware.component_type = <<"F", "P", "M">>
    \/ hardware.component_type = <<"F", "P", "C">> /\ hardware.slot_position = <<"F", "P", "C", " ", "7">>

\* C10: on a node other than R3.KYA.PE-MOBILE.2 no component with a known
\* test serial is left in the returned list, except an FPM and the FPC of
\* slot 'FPC 7', whatever its description and comments contain.
C10_TestSerialsRemoved ==
    pc = "validated" /\ node_name # <<"R", "3", ".", "K", "Y", "A", ".", "P", "E", "-", "M", "O", "B", "I", "L", "E", ".", "2">> =>
        \A i \in 1..Len(cleaned_list) :
            cleaned_list[i].serial_number \in TestSerials => IsRetainedKind(cleaned_list[i])

\* C11: validate_hardware_data is idempotent: the call on the list it
\* returned returns that list, no component being removed by the second
\* run.
C11_ValidateIdempotent ==
    pc = "revalidated" => revalidated_list = cleaned_list

TestPartNumbers == {<<"7", "5", "0", "-", "0", "5", "6", "5", "1", "9">>}

SerialReplacedNote(serial) ==
    <<"[", "T", "e", "s", "t", " ", "s", "e", "r", "i", "a", "l", " ">> \o serial \o <<" ", "r", "e", "p", "l", "a", "c", "e", "d", " ", "w", "i", "t", "h", " ", "r", "e", "a", "l", "i", "s", "t", "i", "c", " ", "s", "e", "r", "i", "a", "l", "]">>

\* what the claim says is kept of a component with a known test part number
KeptWithRealisticSerial(hardware, kept) ==
    /\ kept.component_type = hardware.component_type
    /\ kept.slot_position = hardware.slot_position
    /\ kept.part_number = hardware.part_number
    /\ IF hardware.serial_number \in TestSerials
       THEN /\ kept.serial_number = _generate_realistic_serial(hardware.component_type,
                                        node_name, hardware.slot_position)
            /\ contains(kept.comments, SerialReplacedNote(hardware.serial_number))
       ELSE kept.serial_number = hardware.serial_number

\* C12: every component whose part number is a known test part number is
\* in the returned list, and when its serial is a known test serial too it
\* is there with the serial _generate_realistic_serial gives and with the
\* note in its comments.
C12_TestPartNumberKept ==
    pc = "validated" =>
        \A i \in 1..Len(hardware_list) :
            hardware_list[i].part_number \in TestPartNumbers =>
                \E j \in 1..Len(cleaned_list) :
                    KeptWithRealisticSerial(hardware_list[i], cleaned_list[j])

(***************************************************************************)
(* Claims about _smart_sfp_inference.                                      *)
(***************************************************************************)
Inferred == pc \in {"inferred", "reported"} /\ smart_inference.kind # "not called"

XeUsedWithNeighbor ==
    /\ Inferred
    /\ matches_at(iface_name, <<"x", "e", "-">>, 1)
    /\ iface_status = <<"U", "S", "E", "D">>
    /\ iface_name \in DOMAIN neighbors

\* C14: an xe- interface with status USED and an entry in the LLDP
\* neighbours map gets a result whose sfp_status contains "SFP+" and whose
\* confidence is at least 30, whatever the descriptions map holds.
C14_XeUsedWithNeighborInfersSfpPlus ==
    XeUsedWithNeighbor =>
        /\ smart_inference.kind = "result"
        /\ contains(smart_inference.sfp_status, <<"S", "F", "P", "+">>)
        /\ smart_inference.confidence >= 30

\* the description of the interface names a 1G, copper or fibre link and
\* no 10G one
DescriptionNamesAnotherType ==
    LET desc == lower(IF iface_name \in DOMAIN descriptions THEN descriptions[iface_name] ELSE <<>>)
    IN  /\ \E kw \in {<<"1", "g">>, <<"c", "o", "p", "p", "e", "r">>, <<"f", "i", "b", "e", "r">>, <<"o", "p", "t", "i", "c", "a", "l">>} : contains(desc, kw)
        /\ ~\E kw \in {<<"1", "0", "g">>, <<"s", "f", "p", "+">>} : contains(desc, kw)

\* C14, amended: the result is there with a confidence of at least 30, and
\* its sfp_status contains "SFP+" unless the description of the interface
\* names a 1G, copper or fibre link and no 10G one; the status is then the
\* one taken from the description.
C14_XeUsedWithNeighborInfersSfpPlusUnlessDescribed ==
    XeUsedWithNeighbor =>
        /\ smart_inference.kind = "result"
        /\ smart_inference.confidence >= 30
        /\ IF DescriptionNamesAnotherType
           THEN smart_inference.sfp_status \in {<<"S", "F", "P", "-", "T", " ", "(", "f", "r", "o", "m", " ", "d", "e", "s", "c", "r", "i", "p", "t", "i", "o", "n", ")">>, <<"S", "F", "P", " ", "(", "f", "r", "o", "m", " ", "d", "e", "s", "c", "r", "i", "p", "t", "i", "o", "n", ")">>}
           ELSE contains(smart_inference.sfp_status, <<"S", "F", "P", "+">>)

C14_Witness ==
    /\ XeUsedWithNeighbor
    /\ pc = "reported"
    /\ descriptions = EmptyDict
    /\ smart_inference.kind = "result"
    /\ smart_inference.sfp_status = <<"S", "F", "P", "+", " ", "(", "L", "L", "D", "P", " ", "c", "o", "n", "f", "i", "r", "m", "e", "d", ")">>
    /\ sfp_report.sfp_status = <<"S", "F", "P", "+", " ", "(", "L", "L", "D", "P", " ", "c", "o", "n", "f", "i", "r", "m", "e", "d", ")">>

UnusedOutsideThePatterns ==
    /\ pc = "reported"
    /\ iface_status = <<"U", "N", "U", "S", "E", "D">>
    /\ ~_is_fase3_candidate(iface_name, iface_node)

\* the confidence behind the reported status: that of the inference result
\* it was taken from, 0 when there is none
ReportedConfidence ==
    IF sfp_report.smart_inference.kind = "result" THEN sfp_report.smart_inference.confidence ELSE 0

\* C15: an UNUSED interface without optics and transceiver data that
\* matches none of the high-probability patterns is reported with status
\* "No SFP" and confidence 0.
C15_UnusedOutsideThePatternsIsNoSfp ==
    UnusedOutsideThePatterns =>
        sfp_report.sfp_status = <<"N", "o", " ", "S", "F", "P">> /\ ReportedConfidence = 0

\* C15, amended: the same for every such interface that is not an ae
\* bundle; an ae interface is reported as "Logical Bundle".
C15_UnusedOutsideThePatternsIsNoSfpUnlessBundle ==
    UnusedOutsideThePatterns =>
        /\ ReportedConfidence = 0
        /\ sfp_report.sfp_status = IF matches_at(iface_name, <<"a", "e">>, 1) /\ Find(iface_name, "-", 1) \in {0, 3}
                                   THEN <<"L", "o", "g", "i", "c", "a", "l", " ", "B", "u", "n", "d", "l", "e">> ELSE <<"N", "o", " ", "S", "F", "P">>

C15_Witness ==
    /\ UnusedOutsideThePatterns
    /\ iface_name = <<"g", "e", "-", "1", "/", "1", "/", "7">>
    /\ iface_node = <<"R", "3", ".", "K", "Y", "A", ".", "P", "E", "-", "M", "O", "B", "I", "L", "E", ".", "2">>
    /\ iface_name \in DOMAIN neighbors
    /\ sfp_report.sfp_status = <<"N", "o", " ", "S", "F", "P">>

\* C16: the confidence of every result of _smart_sfp_inference is between
\* 0 and 100.
C16_ConfidenceIsAPercentage ==
    Inferred /\ smart_inference.kind = "result" =>
        0 <= smart_inference.confidence /\ smart_inference.confidence <= 100

\* the score the call logged, when it came to scoring
Scored == smart_inference.log # <<>>

NestedStart ==
    IF buff # <<>> /\ buff[1] = RPC_OPEN /\ Find(buff, RPC_OPEN, 2) # 0
       /\ Find(buff, CLOSE_RPC, 1) > Find(buff, RPC_OPEN, 2)
    THEN Find(buff, RPC_OPEN, 2) ELSE 0

\* C18: when an rpc-reply block holds a nested "<rpc-reply" before its own
\* closing tag, the text before the nested start is emitted as a block of its
\* own, followed by closing tags such that in this block chassis-module,
\* chassis-sub-module and chassis-inventory are each closed as often as
\* opened, the block ends with its one "</rpc-reply>", and the remainder from
\* the nested start on is the next block.
C18_NestedStartSplitsTheBlock ==
    (pc = "log_extracted" /\ NestedStart # 0) =>
        LET first_part == SubSeq(buff, 1, NestedStart - 1)
            remainder  == SubSeq(buff, NestedStart, Len(buff))
            n          == Len(extracted) - Len(remainder) - 1
            block      == SubSeq(extracted, 1, n)
        IN  /\ n > Len(first_part)
            /\ extracted = block \o <<NL>> \o remainder
            /\ SubSeq(block, 1, Len(first_part)) = first_part
            /\ \A name \in {"chassis-module", "chassis-sub-module", "chassis-inventory"} :
                  Count(block, Open(name)) = Count(block, Close(name))
            /\ block[n] = CLOSE_RPC
            /\ Count(block, CLOSE_RPC) = 1

\* the pair is present: its opening tag occurs, and its closing tag after it
PairPresent(b, pair) ==
    /\ FirstIn(b, tokens_with_prefix(pair[1])) # 0
    /\ LastIn(b, {pair[2]}) > FirstIn(b, tokens_with_prefix(pair[1]))

\* from the first occurrence of the opening tag to the last occurrence of
\* the closing tag
PairSpan(b, pair) ==
    SubSeq(b, FirstIn(b, tokens_with_prefix(pair[1])), LastIn(b, {pair[2]}))

\* from a tag to the last '>'; nothing when there is no such tag
TagSpan(b, from) == IF from = 0 THEN <<>> ELSE SubSeq(b, from, LastIn(b, TagTokens(b)))

NoCompleteBlock ==
    \A i \in 1..Len(buff) : buff[i] = RPC_OPEN => Find(buff, CLOSE_RPC, i) = 0

\* C19, as stated: without a complete rpc-reply block the result is the span
\* of the first present pair among chassis, configuration, inventory,
\* fpc-information, fpc, in this order, and the span from the first '<' to
\* the last '>' only when none of them is present.
C19_FirstPresentPairInOrder ==
    (pc = "log_extracted" /\ NoCompleteBlock) =>
        LET pairs == << <<"<chassis", Close("chassis")>>,
                        <<"<configuration", Close("configuration")>>,
                        <<"<inventory", Close("inventory")>>,
                        <<"<fpc-information", Close("fpc-information")>>,
                        <<"<fpc", Close("fpc")>> >>
        IN  /\ \A i \in 1..Len(pairs) :
                  (PairPresent(buff, pairs[i]) /\ \A j \in 1..(i - 1) : ~PairPresent(buff, pairs[j]))
                  => extracted = PairSpan(buff, pairs[i])
            /\ (\A i \in 1..Len(pairs) : ~PairPresent(buff, pairs[i]))
                  => extracted = TagSpan(buff, FirstIn(buff, TagTokens(buff)))

\* C19, amended: the same, but an XML declaration comes between inventory and
\* fpc-information: when none of chassis, configuration and inventory is
\* present and the text holds "<?xml", the result is the span from there to
\* the last '>'.
C19_FirstPresentPairOrDeclarationInOrder ==
    (pc = "log_extracted" /\ NoCompleteBlock) =>
        LET before == << <<"<chassis", Close("chassis")>>,
                         <<"<configuration", Close("configuration")>>,
                         <<"<inventory", Close("inventory")>> >>
            after  == << <<"<fpc-information", Close("fpc-information")>>,
                         <<"<fpc", Close("fpc")>> >>
            none_before == \A i \in 1..Len(before) : ~PairPresent(buff, before[i])
            declaration == FirstIn(buff, {XML_DECL})
        IN  /\ \A i \in 1..Len(before) :
                  (PairPresent(buff, before[i]) /\ \A j \in 1..(i - 1) : ~PairPresent(buff, before[j]))
                  => extracted = PairSpan(buff, before[i])
            /\ (none_before /\ declaration # 0) => extracted = TagSpan(buff, declaration)
            /\ \A i \in 1..Len(after) :
                  (/\ none_before /\ declaration = 0
                   /\ PairPresent(buff, after[i]) /\ \A j \in 1..(i - 1) : ~PairPresent(buff, after[j]))
                  => extracted = PairSpan(buff, after[i])
            /\ (/\ none_before /\ declaration = 0
                /\ \A i \in 1..Len(after) : ~PairPresent(buff, after[i]))
                  => extracted = TagSpan(buff, FirstIn(buff, TagTokens(buff)))

\* a declaration before an fpc-information element, with text after it
C19_Witness ==
    /\ pc = "log_extracted"
    /\ buff = <<XML_DECL, Open("fpc-information"), Close("fpc-information"), TEXT>>
    /\ extracted = <<XML_DECL, Open("fpc-information"), Close("fpc-information")>>

(***************************************************************************)
(* Claims about _build_hardware_map.                                       *)
(***************************************************************************)
\* C20: the returned hardware list holds no component of type PIC whose part
\* number is BUILTIN, whether the PIC is a chassis-sub-module or a
\* chassis-sub-sub-module.
C20_NoBuiltinPicListed ==
    pc = "hardware_built" =>
        \A i \in 1..Len(hardware_map) :
            ~(hardware_map[i].component_type = <<"P", "I", "C">> /\ hardware_map[i].part_number = BUILTIN)

(***************************************************************************)
(* Claims about capture_data.                                              *)
(***************************************************************************)
\* the show commands were run, so the alarms and the hardware were built
CommandsRun == \E k \in DOMAIN commands_sent : commands_sent[k] = "show"

\* C21: when the XML of the interfaces cannot be parsed, the dict that
\* capture_data returns still holds the alarms and the hardware inventory
\* built from the other commands of the device.
C21_UnparsedInterfacesKeepTheOtherData ==
    (pc = "captured" /\ CommandsRun /\ iface_doc.kind = "None"
        /\ capture_outcome.kind = "return") =>
        /\ \A k \in DOMAIN alarm_list :
               \E r \in DOMAIN dict_get(capture_outcome.value, "alarms", <<>>) :
                   dict_get(capture_outcome.value, "alarms", <<>>)[r] = alarm_list[k]
        /\ \A k \in DOMAIN parsed_hardware :
               \E r \in DOMAIN dict_get(capture_outcome.value, "hardware", <<>>) :
                   dict_get(capture_outcome.value, "hardware", <<>>)[r] = parsed_hardware[k]

\* C22: capture_data never raises to its caller while it builds the rows of
\* the interfaces, whatever the order and the types of the interfaces, a
\* first interface of type ae included.
C22_CaptureNeverRaises == phy_index > 0 => capture_outcome.kind # "raise"

\* C26: the connection is tried at most 5 times, with the timeouts 60, 90,
\* 120, 180 and 240 in that order, no attempt follows one that succeeded,
\* and after the fifth failure the empty result is returned with no shell
\* opened and nothing sent.
C26_FiveAttemptsWithProgressiveTimeouts ==
    /\ [](/\ Len(timeouts_tried) <= 5
          /\ timeouts_tried = SubSeq(<<60, 90, 120, 180, 240>>, 1, Len(timeouts_tried))
          /\ (pc = "captured" /\ capture_node # <<>> /\ ssh_client = None) =>
                 /\ Len(timeouts_tried) = 5
                 /\ capture_outcome = [kind |-> "return",
                                       value |-> [rows |-> <<>>, util |-> <<>>,
                                                  alarms |-> <<>>, hardware |-> <<>>]]
                 /\ channel = None
                 /\ commands_sent = <<>>)
    /\ [][ssh_client # None => timeouts_tried' = timeouts_tried]_vars

C26_Witness ==
    /\ pc = "captured"
    /\ ssh_client = None
    /\ timeouts_tried = <<60, 90, 120, 180, 240>>
    /\ capture_outcome.kind = "return"

\* C28: however capture_data is left after the connection succeeded, close()
\* was called on the SSH client, and on the channel if it was opened.
C28_ClosedOnEveryPath ==
    (pc = "captured" /\ ssh_client # None) =>
        ssh_client = "closed" /\ channel \in {None, "closed"}

C28_Witness ==
    /\ pc = "captured"
    /\ capture_outcome.kind = "raise"
    /\ ssh_client = "closed"
    /\ channel = "closed"

(***************************************************************************)
(* Claims about main.                                                      *)
(***************************************************************************)
\* a capture that failed: it raised, or it returned a dict without any row
Failed(data) ==
    \/ data.kind = "raise"
    \/ /\ data.kind = "return"
       /\ \A key \in {"rows", "util", "alarms", "hardware"} : dict_get(data.value, key, <<>>) = <<>>

NothingStoredFor(nd) ==
    /\ results[nd] = <<>>
    /\ util_results[nd] = <<>>
    /\ alarm_results[nd] = <<>>
    /\ hardware_results[nd] = <<>>

\* C23: a capture_data that raises or returns an empty result never aborts
\* the run: main stores empty rows, utilisation, alarms and hardware for the
\* node, every other entry of the node list is still captured, and main
\* goes on to write the report.
C23_FailedNodeDoesNotAbortTheRun ==
    /\ [](pc = "aborted" =>
              /\ \A i \in DOMAIN futures : ~Failed(futures[i].outcome)
              /\ ~Failed(retry_data))
    /\ []((pc = "pool" /\ last_handled # 0 /\ Failed(futures[last_handled].outcome)) =>
              NothingStoredFor(main_nodes[last_handled]))
    /\ [](pc = "report" => \A i \in DOMAIN futures : futures[i].state = "done")
    /\ ((pc = "pool" /\ main_nodes # <<>>) ~> pc = "report")

C23_Witness ==
    /\ pc = "report"
    /\ Len(main_nodes) = 2
    /\ main_nodes[1] # main_nodes[2]
    /\ futures[1].outcome.kind = "raise"
    /\ NothingStoredFor(main_nodes[1])
    /\ retry_data.kind = "raise"
    /\ results[main_nodes[2]] # <<>>

\* C24: no two executions of capture_data overlap, and the retry phase
\* starts only when the pool has finished every future.
C24_NoTwoCapturesOverlap ==
    /\ \A e1, e2 \in executing : e1 = e2
    /\ pc \in {"retry", "retrying"} => \A i \in DOMAIN futures : futures[i].state = "done"

C24_Witness ==
    /\ pc = "pool"
    /\ last_handled # 0
    /\ \E e \in executing : e.thread # 0

\* the retry loop has called capture_data on the first entries of
\* failed_nodes, one call for each entry
RetriedInListOrder ==
    pc \in {"retry", "retrying", "report"} =>
        retried = SubSeq(failed_nodes, 1, IF pc = "retrying" THEN retry_index ELSE retry_index - 1)

\* when the retry loop starts, failed_nodes holds, in the order of the node
\* list, the entries whose node has neither rows nor utilisation rows
FailedNodesAreTheOnesWithoutData ==
    (pc = "retry" /\ retry_index = 1) =>
        failed_nodes = SelectSeq(main_nodes, LAMBDA nd : results[nd] = <<>> /\ util_results[nd] = <<>>)

\* a retry replaces what is stored for the node when it returned rows or
\* utilisation rows, and leaves everything as it is otherwise
ReplacedOnlyByRowsOrUtil ==
    (pc = "retrying" /\ pc' = "retry") =>
        IF retry_data'.kind = "return"
           /\ (retry_data'.value.rows # <<>> \/ retry_data'.value.util # <<>>)
        THEN /\ results'[failed_nodes[retry_index]] = retry_data'.value.rows
             /\ util_results'[failed_nodes[retry_index]] = retry_data'.value.util
        ELSE UNCHANGED <<results, util_results, alarm_results, hardware_results, xcvrVars>>

\* C27 as stated: each node without rows and utilisation rows is retried
\* exactly once, in the order of the node list, its results are replaced only
\* by a retry that returned rows or utilisation rows, and a node that has
\* data is never captured again.
C27_EachFailedNodeRetriedOnce ==
    /\ [](/\ RetriedInListOrder
          /\ FailedNodesAreTheOnesWithoutData
          /\ \A i, j \in DOMAIN retried : retried[i] = retried[j] => i = j
          /\ \A e \in executing : e.thread = 0 => (results[e.node] = <<>> /\ util_results[e.node] = <<>>))
    /\ [][ReplacedOnlyByRowsOrUtil]_vars

\* C27, amended: each entry of the node list whose node has neither rows
\* nor utilisation rows at the end of the pool phase is retried exactly once,
\* in the order of the node list (a node listed twice is retried twice); the
\* results are replaced only by a retry that returned rows or utilisation
\* rows; a node that has data at the end of the pool phase is not captured
\* again.
C27_EachFailedEntryRetriedOnce ==
    /\ [](/\ RetriedInListOrder
          /\ FailedNodesAreTheOnesWithoutData
          /\ Len(retried) <= Len(failed_nodes))
    /\ [][ReplacedOnlyByRowsOrUtil]_vars

C27_Witness ==
    /\ pc = "report"
    /\ Len(retried) = 2
    /\ retried[1] = retried[2]
    /\ results[retried[1]] # <<>>
    /\ retry_data.kind = "raise"

(***************************************************************************)
(* Claims about add_xcvr_map and _lookup_xcvr_label.                       *)
(***************************************************************************)
\* the three encodings of the coordinates of a transceiver: fpc/pic/port,
\* pic/port and port
Encodings(r) ==
    (IF r.fpc # <<>> /\ r.pic # <<>> /\ r.port # <<>>
     THEN {str(r.fpc[1]) \o <<"/">> \o str(r.pic[1]) \o <<"/">> \o str(r.port[1])} ELSE {})
    \cup (IF r.pic # <<>> /\ r.port # <<>>
          THEN {str(r.pic[1]) \o <<"/">> \o str(r.port[1])} ELSE {})
    \cup (IF r.port # <<>> THEN {str(r.port[1])} ELSE {})

\* C25: every key of the transceiver map is one of the encodings
\* fpc/pic/port, pic/port or port of the coordinates of the transceiver whose
\* label it holds, whichever of fpc, pic and port were found.
C25_KeysEncodeTheOwnCoordinates ==
    \A i \in DOMAIN xcvr_map :
        \E k \in DOMAIN recorded :
            /\ recorded[k].label = xcvr_map[i][2]
            /\ xcvr_map[i][1] \in Encodings(recorded[k])

\* the lookup was made with fpc, pic and port
FullLookup == pc = "looked_up" /\ lookup_args[1] # <<>> /\ lookup_args[2] # <<>>

\* C29 as stated: a lookup with a full coordinate returns a label only if a
\* transceiver with exactly that fpc, pic and port was recorded.
C29_LabelOnlyOfThatTransceiver ==
    (FullLookup /\ lookup_label # <<>>) =>
        \E k \in DOMAIN recorded :
            /\ recorded[k].fpc = lookup_args[1]
            /\ recorded[k].pic = lookup_args[2]
            /\ recorded[k].port = lookup_args[3]
            /\ recorded[k].label = lookup_label

\* the last coordinate found for a transceiver: its port, or else its pic,
\* or else its fpc
LastFound(r) ==
    IF r.port # <<>> THEN r.port ELSE IF r.pic # <<>> THEN r.pic ELSE r.fpc

\* C29, amended: a lookup with a full coordinate returns a label only if it
\* is the label of a recorded transceiver whose last coordinate found is the
\* port number asked for, and it returns the label stored under the key
\* fpc/pic/port whenever there is one.
C29_LabelOfATransceiverWithThatPortNumber ==
    FullLookup =>
        /\ lookup_label # <<>> =>
               \E k \in DOMAIN recorded :
                   /\ recorded[k].label = lookup_label
                   /\ LastFound(recorded[k]) = lookup_args[3]
        /\ \A i \in DOMAIN xcvr_map :
               (/\ xcvr_map[i][1] = str(lookup_args[1][1]) \o <<"/">> \o str(lookup_args[2][1]) \o <<"/">> \o str(lookup_args[3][1])
                /\ xcvr_map[i][2] # <<>>) => lookup_label = xcvr_map[i][2]

C29_Witness ==
    /\ FullLookup
    /\ lookup_label # <<>>
    /\ \E i \in DOMAIN xcvr_map : xcvr_map[i][1] = str(lookup_args[3][1]) /\ xcvr_map[i][2] = <<>>
    /\ \A k \in DOMAIN recorded :
           recorded[k].label = lookup_label =>
               (recorded[k].fpc # lookup_args[1] /\ recorded[k].pic = lookup_args[2])

(***************************************************************************)
(* Claim about the salvage by candidate tag of _parse_fragments_to_dom.    *)
(***************************************************************************)
\* the salvage returned the valid blocks under <root>
SalvagedDocument ==
    /\ pc = "salvaged"
    /\ parsed.kind = "doc"
    /\ parsed.doc # <<>>
    /\ parsed.doc[1] = Open("root")

\* C30: in the document the salvage returns, every element of the fragment
\* stands at most once: the document holds no more opening tags of a name
\* than the fragment does.
C30_SalvagedElementsAtMostOnce ==
    SalvagedDocument =>
        \A i \in DOMAIN parsed.doc :
            (parsed.doc[i].k = "open" /\ parsed.doc[i].n # "root") =>
                Count(parsed.doc, parsed.doc[i]) <= Count(fragment, parsed.doc[i])

=============================================================================
